---------------------------- MODULE Spec2Model ----------------------------
(***************************************************************************)
(* A model of the doxx document reconstruction engine (src/src/document):  *)
(* load_document and its passes, the two numbering managers, run           *)
(* consolidation, heading-number extraction and search_document.           *)
(*                                                                         *)
(* Text.  A Rust String is modelled as a sequence of characters, each      *)
(* character being a one-letter TLA+ string ("a", " ", ".") or, for a      *)
(* character outside ASCII, its code point name ("U+0130").  str::len() is *)
(* the UTF-8 byte length (ByteLen), chars().count() is Len.                *)
(***************************************************************************)
EXTENDS Integers, Sequences, FiniteSets, TLC

VARIABLES
    pc,                         \* position of the running operation
    src,                        \* the source package: docx.document.children
    child_i,                    \* load_document: index of the next child
    elements,                   \* Vec<DocumentElement> being built / Document.elements
    word_count,                 \* load_document: word_count
    counters,                   \* DocumentNumberingManager.counters
    heading_tracker,            \* HeadingNumberTracker {counters, auto_numbering_enabled}
    inline_paragraphs,          \* result of extract_inline_equation_positions
    display_equations_by_para,  \* load_document: display_equations_by_para
    calls,                      \* log of generate_number calls; the previous search call
    arg,                        \* argument of the pure function under check
    ret,                        \* its result
    query,                      \* search_document: query
    results                     \* search_document: results

vars == <<pc, src, child_i, elements, word_count, counters, heading_tracker,
          inline_paragraphs, display_equations_by_para, calls, arg, ret,
          query, results>>

loadVars == <<src, child_i, elements, word_count, heading_tracker,
              inline_paragraphs, display_equations_by_para>>
callVars == <<calls>>
pureVars == <<arg, ret>>
searchVars == <<query, results>>

Null == "null"

\* Option<T>: None is the empty sequence, Some(x) the sequence of x alone.
None == <<>>
Some(x) == <<x>>

---------------------------------------------------------------------------
(* Bounds of the model.                                                    *)

MaxRuns == 3
MaxCalls == 4
MaxTextLen == 4
MaxChildren == 3
MaxElems == 2

---------------------------------------------------------------------------
(* Characters and strings.                                                 *)

\* A TLA+ string literal as a sequence of characters.
S(s) == [i \in 1..Len(s) |-> SubSeq(s, i, i)]

Min(a, b) == IF a < b THEN a ELSE b
Max(a, b) == IF a > b THEN a ELSE b

Digits == {"0", "1", "2", "3", "4", "5", "6", "7", "8", "9"}
UpperAscii == {"A", "B", "C", "D", "E", "F", "G", "H", "I", "J", "K", "L", "M",
               "N", "O", "P", "Q", "R", "S", "T", "U", "V", "W", "X", "Y", "Z"}
LowerAscii == {"a", "b", "c", "d", "e", "f", "g", "h", "i", "j", "k", "l", "m",
               "n", "o", "p", "q", "r", "s", "t", "u", "v", "w", "x", "y", "z"}
UpperSeq == S("ABCDEFGHIJKLMNOPQRSTUVWXYZ")
LowerSeq == S("abcdefghijklmnopqrstuvwxyz")

\* Characters outside ASCII that the model's inputs use:
\*   U+0130 LATIN CAPITAL LETTER I WITH DOT ABOVE (2 bytes), lower-cases to
\*          U+0069 U+0307 (1 + 2 bytes);
\*   U+0307 COMBINING DOT ABOVE (2 bytes);
\*   U+212A KELVIN SIGN (3 bytes), lower-cases to "k";
\*   U+1E9E LATIN CAPITAL LETTER SHARP S (3 bytes), lower-cases to
\*          U+00DF LATIN SMALL LETTER SHARP S (2 bytes);
\*   U+00C9 / U+00E9 E WITH ACUTE, capital and small (2 bytes each);
\*   U+2022 BULLET (3 bytes);
\*   U+00A3 POUND SIGN (2 bytes), U+20AC EURO SIGN (3 bytes).
\* The characters U+0080..U+07FF in use: Latin-1 signs and letters, combining
\* marks, Greek letters.
TwoByteChars ==
    {"U+0130", "U+0307", "U+0302", "U+00C9", "U+00E9", "U+00DF", "U+00A3",
     "U+00B1", "U+00D7", "U+00F7",
     "U+03C0", "U+03B1", "U+03B2", "U+03B3", "U+0393", "U+03B4", "U+0394",
     "U+03B8", "U+03BB", "U+03BC", "U+03C3", "U+03A3", "U+03C6", "U+03C9",
     "U+03A9"}

Utf8Len(c) ==
    IF Len(c) = 1 THEN 1
    ELSE IF c \in TwoByteChars THEN 2
    ELSE 3

\* str::len(): the length in bytes.
RECURSIVE ByteLen(_)
ByteLen(t) ==
    IF t = <<>> THEN 0
    ELSE IF Len(t) = 1 THEN Utf8Len(Head(t))
    ELSE ByteLen(SubSeq(t, 1, Len(t) \div 2))
             + ByteLen(SubSeq(t, Len(t) \div 2 + 1, Len(t)))

IndexIn(c, seq) == CHOOSE i \in 1..Len(seq) : seq[i] = c

\* char::to_lowercase, as a sequence of characters.
CharLower(c) ==
    IF c \in UpperAscii THEN <<LowerSeq[IndexIn(c, UpperSeq)]>>
    ELSE IF c = "U+0130" THEN <<"i", "U+0307">>
    ELSE IF c = "U+212A" THEN <<"k">>
    ELSE IF c = "U+1E9E" THEN <<"U+00DF">>
    ELSE IF c = "U+00C9" THEN <<"U+00E9">>
    ELSE <<c>>

\* str::to_lowercase
RECURSIVE ToLowercase(_)
ToLowercase(t) ==
    IF t = <<>> THEN <<>> ELSE CharLower(Head(t)) \o ToLowercase(Tail(t))

IsWhitespace(c) == c \in {" ", "\t", "\n", "\r"}
IsDigit(c) == c \in Digits
IsUppercase(c) == c \in UpperAscii \cup {"U+0130", "U+212A", "U+00C9", "U+1E9E"}
IsAlphabetic(c) ==
    c \in UpperAscii \cup LowerAscii
            \cup {"U+0130", "U+212A", "U+00C9", "U+00E9", "U+1E9E", "U+00DF"}
\* char::is_ascii_punctuation (the quotation mark, the backslash and the grave
\* accent, which no input of the model holds, are left out of the table).
AsciiPunctuation == S("!#$%&'()+,-./:;<=>?@[]^_{|}~") \o <<"*">>
IsAsciiPunctuation(c) == \E i \in 1..Len(AsciiPunctuation) : AsciiPunctuation[i] = c

TrimStart(t) ==
    LET kept == {i \in 1..Len(t) : ~IsWhitespace(t[i])}
    IN  IF kept = {} THEN <<>>
        ELSE SubSeq(t, CHOOSE i \in kept : \A j \in kept : i <= j, Len(t))

RECURSIVE TrimEnd(_)
TrimEnd(t) ==
    IF t # <<>> /\ IsWhitespace(t[Len(t)])
    THEN TrimEnd(SubSeq(t, 1, Len(t) - 1)) ELSE t

Trim(t) == TrimEnd(TrimStart(t))

StartsWith(t, p) == Len(p) <= Len(t) /\ SubSeq(t, 1, Len(p)) = p
EndsWith(t, p) == Len(p) <= Len(t) /\ SubSeq(t, Len(t) - Len(p) + 1, Len(t)) = p
Drop(t, n) == SubSeq(t, n + 1, Len(t))

\* The character positions at which p occurs in t.
Occurrences(t, p) ==
    {i \in 1..(Len(t) - Len(p) + 1) : SubSeq(t, i, i + Len(p) - 1) = p}

Contains(t, p) == Occurrences(t, p) # {}

\* str::find: the byte offset of the first occurrence of p in t, or -1.
Find(t, p) ==
    IF Occurrences(t, p) = {} THEN -1
    ELSE LET i == CHOOSE k \in Occurrences(t, p) :
                      \A m \in Occurrences(t, p) : k <= m
         IN  ByteLen(SubSeq(t, 1, i - 1))

\* Concatenation of a sequence of strings (collect::<String>()).
RECURSIVE Concat(_)
Concat(ts) == IF ts = <<>> THEN <<>> ELSE Head(ts) \o Concat(Tail(ts))

\* str::split_whitespace().count()
RECURSIVE WordCount(_)
WordCount(t) ==
    LET s == TrimStart(t)
    IN  IF s = <<>> THEN 0
        ELSE LET RECURSIVE WordEnd(_)
                 WordEnd(i) == IF i <= Len(s) /\ ~IsWhitespace(s[i])
                               THEN WordEnd(i + 1) ELSE i
             IN  1 + WordCount(Drop(s, WordEnd(1) - 1))

\* u32::to_string
RECURSIVE DecimalString(_)
DecimalString(n) ==
    LET d == S("0123456789")[(n % 10) + 1]
    IN  IF n < 10 THEN <<d>> ELSE Append(DecimalString(n \div 10), d)

---------------------------------------------------------------------------
(* models.rs: TextFormatting, FormattedRun.                                *)

\* TextFormatting::default()
DefaultFormatting ==
    [bold |-> FALSE, italic |-> FALSE, underline |-> FALSE,
     strikethrough |-> FALSE, font_size |-> Null, color |-> Null]

Bold == [DefaultFormatting EXCEPT !.bold = TRUE]
Strike == [DefaultFormatting EXCEPT !.strikethrough = TRUE]
Red == [DefaultFormatting EXCEPT !.color = "FF0000"]

FormattedRun(text, formatting) == [text |-> text, formatting |-> formatting]

RunsText(runs) == Concat([i \in 1..Len(runs) |-> runs[i].text])

\* A plausible slip: the formatting comparison looks at bold only.
RECURSIVE ConsolidateRunsBoldOnly(_)
ConsolidateRunsBoldOnly(runs) ==
    IF Len(runs) <= 1 THEN runs
    ELSE LET rest == ConsolidateRunsBoldOnly(Tail(runs))
         IN  IF runs[1].formatting.bold = rest[1].formatting.bold
             THEN <<FormattedRun(runs[1].text \o rest[1].text, runs[1].formatting)>>
                  \o Tail(rest)
             ELSE <<runs[1]>> \o rest

\* FormattedRun::consolidate_runs: the loop over runs[1..] with the
\* accumulator (consolidated, current_run).
RECURSIVE ConsolidateLoop(_, _, _)
ConsolidateLoop(consolidated, current_run, rest) ==
    IF rest = <<>> THEN Append(consolidated, current_run)
    ELSE IF current_run.formatting = Head(rest).formatting
         THEN ConsolidateLoop(consolidated,
                              [current_run EXCEPT !.text = @ \o Head(rest).text],
                              Tail(rest))
         ELSE ConsolidateLoop(Append(consolidated, current_run), Head(rest), Tail(rest))

ConsolidateRuns(runs) ==
    IF runs = <<>> THEN runs
    ELSE ConsolidateLoop(<<>>, runs[1], Tail(runs))

---------------------------------------------------------------------------
(* parsing/numbering.rs: DocumentNumberingManager.                         *)

\* The keys (numId, level) the model's calls use.
NumIds == {1, 4}
Levels == {0, 1, 2}

\* legacy.rs: get_numbering_format
GetNumberingFormat(num_id, level) ==
    CASE num_id = 4 /\ level = 0 -> "Decimal"
      [] num_id = 4 /\ level = 1 -> "Decimal"
      [] num_id = 4 /\ level = 2 -> "LowerRoman"
      [] num_id = 5 /\ level = 2 -> "ParenLowerLetter"
      [] num_id = 2 /\ level = 0 -> "Decimal"
      [] num_id = 2 /\ level = 3 -> "ParenLowerRoman"
      [] num_id = 1 /\ level = 0 -> "Decimal"
      [] num_id = 1 /\ level = 1 -> "LowerLetter"
      [] num_id = 1 /\ level = 2 -> "LowerRoman"
      [] num_id = 1 /\ level = 3 -> "ParenLowerLetter"
      [] num_id = 1 /\ level = 4 -> "ParenLowerRoman"
      [] OTHER -> CASE level = 0 -> "Decimal"
                    [] level = 1 -> "LowerLetter"
                    [] level = 2 -> "LowerRoman"
                    [] level = 3 -> "UpperLetter"
                    [] level = 4 -> "UpperRoman"
                    [] OTHER -> "Decimal"

RomanValues == <<1000, 900, 500, 400, 100, 90, 50, 40, 10, 9, 5, 4, 1>>
RomanSymbols == <<"M", "CM", "D", "CD", "C", "XC", "L", "XL", "X", "IX", "V", "IV", "I">>

\* DocumentNumberingManager::to_roman: for each value in turn, while n >= value
\* push the symbol and subtract.
RECURSIVE ToRomanFrom(_, _)
ToRomanFrom(n, i) ==
    IF i > Len(RomanValues) THEN <<>>
    ELSE IF n >= RomanValues[i]
         THEN S(RomanSymbols[i]) \o ToRomanFrom(n - RomanValues[i], i)
         ELSE ToRomanFrom(n, i + 1)

\* A plausible slip: the table lacks the subtractive pairs (4 gives IIII).
RECURSIVE ToRomanAdditiveFrom(_, _)
ToRomanAdditiveFrom(n, i) ==
    IF i > Len(RomanValues) THEN <<>>
    ELSE IF n >= RomanValues[i] /\ Len(RomanSymbols[i]) = 1
         THEN S(RomanSymbols[i]) \o ToRomanAdditiveFrom(n - RomanValues[i], i)
         ELSE ToRomanAdditiveFrom(n, i + 1)

ToRomanAdditive(num) == ToRomanAdditiveFrom(num, 1)

ToRoman(num) == ToRomanFrom(num, 1)

\* DocumentNumberingManager::format_number
FormatNumber(counter, format) ==
    CASE format = "Decimal" -> DecimalString(counter) \o S(". ")
      [] format = "LowerLetter" ->
            IF counter <= 26 THEN <<LowerSeq[counter]>> \o S(". ")
            ELSE DecimalString(counter) \o S(". ")
      [] format = "LowerRoman" -> ToLowercase(ToRoman(counter)) \o S(". ")
      [] format = "UpperLetter" ->
            IF counter <= 26 THEN <<UpperSeq[counter]>> \o S(". ")
            ELSE DecimalString(counter) \o S(". ")
      [] format = "UpperRoman" -> ToRoman(counter) \o S(". ")
      [] format = "ParenLowerLetter" ->
            IF counter <= 26 THEN S("(") \o <<LowerSeq[counter]>> \o S(")")
            ELSE S("(") \o DecimalString(counter) \o S(")")
      [] format = "ParenLowerRoman" ->
            S("(") \o ToLowercase(ToRoman(counter)) \o S(")")
      [] format = "Bullet" -> S("* ")

\* A plausible slip: every level 1 is composed with its parent, whatever the
\* numbering id.
FormatHierarchicalNumberAnyId(cs, num_id, level, counter, format) ==
    IF level = 1
    THEN LET parts == IF <<num_id, 0>> \in DOMAIN cs
                      THEN DecimalString(cs[<<num_id, 0>>]) \o S(".")
                      ELSE <<>>
         IN  parts \o DecimalString(counter) \o S(". ")
    ELSE FormatNumber(counter, format)

\* DocumentNumberingManager::format_hierarchical_number, on the counters as
\* they are after the increment and the reset.
FormatHierarchicalNumber(cs, num_id, level, counter, format) ==
    IF num_id = 4 /\ level = 1
    THEN LET parts == IF <<num_id, 0>> \in DOMAIN cs
                      THEN DecimalString(cs[<<num_id, 0>>]) \o S(".")
                      ELSE <<>>
         IN  parts \o DecimalString(counter) \o S(". ")
    ELSE FormatNumber(counter, format)

\* A plausible slip: the reset forgets to compare the numbering id.
ResetDeeperLevelsAnyId(cs, num_id, current_level) ==
    [k \in {key \in DOMAIN cs : ~(key[2] > current_level)} |-> cs[k]]

\* DocumentNumberingManager::reset_deeper_levels
ResetDeeperLevels(cs, num_id, current_level) ==
    [k \in {key \in DOMAIN cs : ~(key[1] = num_id /\ key[2] > current_level)}
        |-> cs[k]]

\* A plausible slip: the entry is created at 1 and then incremented.
IncrementCounterFromOne(cs, key) ==
    [k \in DOMAIN cs \cup {key} |->
        IF k = key THEN (IF key \in DOMAIN cs THEN cs[key] ELSE 1) + 1
        ELSE cs[k]]

\* counters.entry(key).or_insert(0), then += 1
IncrementCounter(cs, key) ==
    [k \in DOMAIN cs \cup {key} |->
        IF k = key THEN (IF key \in DOMAIN cs THEN cs[key] ELSE 0) + 1
        ELSE cs[k]]

\* DocumentNumberingManager::generate_number: the counters after the call, the
\* counter value used and the string returned.
GenerateNumber(cs, num_id, level, format) ==
    LET key == <<num_id, level>>
        inc == IncrementCounter(cs, key)
        counter_value == inc[key]
        after == ResetDeeperLevels(inc, num_id, level)
    IN  [counters |-> after,
         counter |-> counter_value,
         text |-> FormatHierarchicalNumber(after, num_id, level, counter_value, format)]

\* Idle values of the variables an operation does not use.
IdleLoad ==
    /\ src = <<>>
    /\ child_i = 0
    /\ elements = <<>>
    /\ word_count = 0
    /\ heading_tracker = Null
    /\ inline_paragraphs = <<>>
    /\ display_equations_by_para = <<>>
IdleCalls == calls = <<>>
IdlePure == arg = Null /\ ret = Null
IdleSearch == query = Null /\ results = Null

\* DocumentNumberingManager::new(), then a sequence of generate_number calls
\* with the format load_document passes.
InitNumbering ==
    /\ pc = "numbering"
    /\ counters = <<>>
    /\ IdleCalls /\ IdleLoad /\ IdlePure /\ IdleSearch

CallGenerateNumber ==
    /\ pc = "numbering"
    /\ Len(calls) < MaxCalls
    /\ \E num_id \in NumIds, level \in Levels :
          LET r == GenerateNumber(counters, num_id, level,
                                  GetNumberingFormat(num_id, level))
          IN  /\ counters' = r.counters
              /\ calls' = Append(calls, [num_id |-> num_id, level |-> level,
                                         counter |-> r.counter, text |-> r.text])
    /\ UNCHANGED <<pc, loadVars, pureVars, searchVars>>

NextNumbering == CallGenerateNumber

SpecNumbering == InitNumbering /\ [][NextNumbering]_vars

\* Calls i < j of the log with the same (num_id, level) and no call of the same
\* num_id at a shallower level strictly between them.
SameKey(i, j) ==
    calls[i].num_id = calls[j].num_id /\ calls[i].level = calls[j].level
Undisturbed(i, j) ==
    \A k \in (i + 1)..(j - 1) :
        ~(calls[k].num_id = calls[j].num_id /\ calls[k].level < calls[j].level)

\* C2: for a fixed (num_id, level) the first call uses counter 1, and a repeated
\* call uses the counter of the previous call for that key plus one, as long as
\* no call for the same num_id at a shallower level came in between; calls for
\* other num_ids or deeper levels in between change nothing.
C2_NumberingMonotonic ==
    pc = "numbering" =>
        \A j \in 1..Len(calls) :
            LET before == {i \in 1..(j - 1) : SameKey(i, j)}
            IN  /\ before = {} => calls[j].counter = 1
                /\ \A i \in before :
                      ((\A m \in before : m <= i) /\ Undisturbed(i, j))
                          => calls[j].counter = calls[i].counter + 1
                /\ \A i \in before :
                      Undisturbed(i, j) => calls[j].counter > calls[i].counter

\* A repeated call for a key, with a call for another num_id at a shallower
\* level and a call for a deeper level of the same num_id in between.
C2_Witness ==
    /\ pc = "numbering"
    /\ Len(calls) = 4
    /\ SameKey(1, 4) /\ calls[1].level = 1
    /\ calls[2].num_id # calls[1].num_id /\ calls[2].level = 0
    /\ calls[3].num_id = calls[1].num_id /\ calls[3].level = 2
    /\ calls[4].counter = 2

---------------------------------------------------------------------------
(* FormattedRun::consolidate_runs as an operation on its own.              *)

Formattings == {DefaultFormatting, Bold, Strike}
RunTexts == {<<>>, S("a"), S("b ")}
RunPalette == {FormattedRun(t, f) : t \in RunTexts, f \in Formattings}

RECURSIVE SeqsUpTo(_, _)
SeqsUpTo(set, n) ==
    IF n = 0 THEN {<<>>}
    ELSE LET shorter == SeqsUpTo(set, n - 1)
         IN  shorter \cup {Append(q, x) : q \in {r \in shorter : Len(r) = n - 1},
                                          x \in set}

InitRuns ==
    /\ pc = "runs"
    /\ arg \in SeqsUpTo(RunPalette, MaxRuns)
    /\ ret = Null
    /\ counters = <<>>
    /\ IdleCalls /\ IdleLoad /\ IdleSearch

CallConsolidateRuns ==
    /\ pc = "runs"
    /\ ret' = ConsolidateRuns(arg)
    /\ pc' = "runs_done"
    /\ UNCHANGED <<arg, counters, loadVars, callVars, searchVars>>

NextRuns == CallConsolidateRuns

SpecRuns == InitRuns /\ [][NextRuns]_vars

\* The maximal blocks of adjacent runs of equal formatting: block boundaries
\* are the positions whose formatting differs from the position before.
BlockStarts(runs) ==
    {i \in 1..Len(runs) : i = 1 \/ runs[i].formatting # runs[i - 1].formatting}
BlockEnd(runs, i) ==
    CHOOSE e \in i..Len(runs) :
        /\ \A k \in i..e : runs[k].formatting = runs[i].formatting
        /\ (e = Len(runs) \/ runs[e + 1].formatting # runs[i].formatting)

\* C3: consolidate_runs keeps the concatenated text; each output run is the
\* in-order concatenation of one maximal block of adjacent input runs of
\* identical formatting and carries that formatting; consolidating the result
\* again changes nothing; the empty sequence maps to the empty sequence.
C3_ConsolidateLossless ==
    pc = "runs_done" =>
        /\ RunsText(ret) = RunsText(arg)
        /\ Len(ret) = Cardinality(BlockStarts(arg))
        /\ \A i \in BlockStarts(arg) :
              LET n == Cardinality({b \in BlockStarts(arg) : b <= i})
              IN  /\ ret[n].formatting = arg[i].formatting
                  /\ ret[n].text = RunsText(SubSeq(arg, i, BlockEnd(arg, i)))
        /\ \A n \in 1..(Len(ret) - 1) : ret[n].formatting # ret[n + 1].formatting
        /\ ConsolidateRuns(ret) = ret
        /\ (arg = <<>> => ret = <<>>)

\* Three runs of which the first two share their formatting and the third does
\* not: two runs come out.
C3_Witness ==
    /\ pc = "runs_done"
    /\ Len(arg) = 3
    /\ arg[1].formatting = arg[2].formatting
    /\ arg[2].formatting # arg[3].formatting
    /\ arg[2].formatting.bold = arg[3].formatting.bold
    /\ Len(ret) = 2

---------------------------------------------------------------------------
(* parsing/numbering.rs: HEADING_NUMBER_PATTERNS and                       *)
(* extract_heading_number_from_text.  The four regular expressions are     *)
(* matched the way the regex crate matches them: anchored at both ends,    *)
(* leftmost-first alternation, greedy repetition, "." matching every       *)
(* character but the line feed, \s matching white space, \d matching       *)
(* digits.                                                                 *)

\* The end (exclusive) of the longest run of characters of `set` from i on.
RECURSIVE RunEnd(_, _, _)
RunEnd(t, i, set) ==
    IF i <= Len(t) /\ t[i] \in set THEN RunEnd(t, i + 1, set) ELSE i

WhitespaceChars == {" ", "\t", "\n", "\r"}

\* (?:\.\d+)* from position i: the end of the last group that matches.
RECURSIVE DotGroupsEnd(_, _)
DotGroupsEnd(t, i) ==
    IF i + 1 <= Len(t) /\ t[i] = "." /\ IsDigit(t[i + 1])
    THEN DotGroupsEnd(t, RunEnd(t, i + 1, Digits))
    ELSE i

\* \.? from position i
OptionalDotEnd(t, i) == IF i <= Len(t) /\ t[i] = "." THEN i + 1 ELSE i

\* The tail of every pattern, \s+(.+)$, from position i: captures 1 and 2, or
\* None when the tail does not match.
MatchTail(t, i) ==
    LET w == RunEnd(t, i, WhitespaceChars)
        rest == Drop(t, w - 1)
    IN  IF w > i /\ rest # <<>> /\ \A k \in 1..Len(rest) : rest[k] # "\n"
        THEN Some([g1 |-> SubSeq(t, 1, i - 1), g2 |-> rest])
        ELSE None

\* A plausible slip: a single integer needs no period.
DecimalPatternNoPeriod(t) ==
    LET d == RunEnd(t, 1, Digits)
    IN  IF d = 1 THEN None ELSE MatchTail(t, OptionalDotEnd(t, DotGroupsEnd(t, d)))

\* ^(\d+(?:\.\d+)+\.?|\d+\.)\s+(.+)$
DecimalPattern(t) ==
    LET d == RunEnd(t, 1, Digits)
        g == DotGroupsEnd(t, d)
        e == OptionalDotEnd(t, g)
    IN  IF d = 1 THEN None
        ELSE IF g > d THEN MatchTail(t, e)       \* \d+(?:\.\d+)+\.?
        ELSE IF e > g THEN MatchTail(t, e)       \* \d+\.
        ELSE None

SectionWords == <<S("Section"), S("Chapter"), S("Part")>>

\* ^((?:Section|Chapter|Part)\s+\d+(?:\.\d+)*\.?)\s+(.+)$
SectionPattern(t) ==
    IF \E k \in 1..Len(SectionWords) : StartsWith(t, SectionWords[k])
    THEN LET k == CHOOSE k \in 1..Len(SectionWords) : StartsWith(t, SectionWords[k])
             a == Len(SectionWords[k]) + 1
             w == RunEnd(t, a, WhitespaceChars)
             d == RunEnd(t, w, Digits)
         IN  IF w > a /\ d > w
             THEN MatchTail(t, OptionalDotEnd(t, DotGroupsEnd(t, d)))
             ELSE None
    ELSE None

\* ^([A-Z]\.)\s+(.+)$
LetterPattern(t) ==
    IF Len(t) >= 2 /\ t[1] \in UpperAscii /\ t[2] = "." THEN MatchTail(t, 3)
    ELSE None

\* ^([IVX]+\.)\s+(.+)$
RomanPattern(t) ==
    LET r == RunEnd(t, 1, {"I", "V", "X"})
    IN  IF r > 1 /\ r <= Len(t) /\ t[r] = "." THEN MatchTail(t, r + 1) ELSE None

\* str::trim_end_matches('.')
RECURSIVE TrimEndDots(_)
TrimEndDots(t) ==
    IF t # <<>> /\ t[Len(t)] = "." THEN TrimEndDots(SubSeq(t, 1, Len(t) - 1)) ELSE t

\* The body of the loop over the patterns for one pattern's captures.
HeadingNumberOf(m) ==
    IF m = None THEN None
    ELSE LET number == TrimEndDots(m[1].g1)
             remaining_text == Trim(m[1].g2)
         IN  IF number # <<>> /\ remaining_text # <<>>
             THEN Some([number |-> number, text |-> remaining_text])
             ELSE None

\* The first Some of a sequence of options.
RECURSIVE FirstSome(_)
FirstSome(seq) ==
    IF seq = <<>> THEN None
    ELSE IF Head(seq) # None THEN Head(seq) ELSE FirstSome(Tail(seq))

\* extract_heading_number_from_text
ExtractHeadingNumberFromText(text0) ==
    LET text == Trim(text0)
    IN  IF text = <<>> THEN None
        ELSE FirstSome(<<HeadingNumberOf(DecimalPattern(text)),
                            HeadingNumberOf(SectionPattern(text)),
                            HeadingNumberOf(LetterPattern(text)),
                            HeadingNumberOf(RomanPattern(text))>>)


\* The heading texts the pure-function check draws from: the texts of
\* test_heading_number_extraction and of the specification's table, texts with
\* a line break, and every text of at most MaxTextLen characters over a small
\* alphabet.
HeadingTextPalette ==
    {S("1. Introduction"), S("1.1 Project Overview"), S("2.1.1 Something Important"),
     S("A. First Section"), S("I. Roman Numeral"), S("Section 1.2 Overview"),
     S("Introduction"), S("Heading 1"), S("Chapter 5 Summary"), S("Version 2"),
     S("1 Title"), S("  1.1. Title  "), S("Part 2. x"), S("Section 1"),
     S("XIV. Title"), S("12 x"), S("1.\nTitle"), S("1. a\nb"), S("A. a\nb"),
     S("Part 1 a\nb"), S("II. a\nb"), S("1.2.x y"), S("Chapter  7.1.  Two  words")}
HeadingAlphabet == {"1", ".", " ", "A", "I", "x"}

InitHeadingText ==
    /\ pc = "heading_text"
    /\ arg \in HeadingTextPalette \cup SeqsUpTo(HeadingAlphabet, MaxTextLen)
    /\ ret = Null
    /\ counters = <<>>
    /\ IdleCalls /\ IdleLoad /\ IdleSearch

CallExtractHeadingNumber ==
    /\ pc = "heading_text"
    /\ ret' = ExtractHeadingNumberFromText(arg)
    /\ pc' = "heading_text_done"
    /\ UNCHANGED <<arg, counters, loadVars, callVars, searchVars>>

NextHeadingText == CallExtractHeadingNumber

SpecHeadingText == InitHeadingText /\ [][NextHeadingText]_vars

\* The claim's reading of the four patterns, stated on the shape of the text.
AllIn(t, set) == \A i \in 1..Len(t) : t[i] \in set
\* Dot-separated integers: digits and periods, no period first, last or doubled.
IsDottedIntegers(n) ==
    /\ n # <<>> /\ AllIn(n, Digits \cup {"."})
    /\ n[1] # "." /\ n[Len(n)] # "."
    /\ \A i \in 1..(Len(n) - 1) : ~(n[i] = "." /\ n[i + 1] = ".")
HasPeriod(n) == \E i \in 1..Len(n) : n[i] = "."
\* head is the numbering token with its optional trailing period.
StripPeriod(head) ==
    IF head # <<>> /\ head[Len(head)] = "." THEN SubSeq(head, 1, Len(head) - 1) ELSE head
IsDecimalShape(head) ==
    /\ IsDottedIntegers(StripPeriod(head))
    /\ HasPeriod(head)           \* two or more integers, or one with a period
IsSectionShape(head) ==
    \E k \in 1..Len(SectionWords), w \in 1..Len(head) :
        /\ StartsWith(head, SectionWords[k])
        /\ w > Len(SectionWords[k])
        /\ AllIn(SubSeq(head, Len(SectionWords[k]) + 1, w), WhitespaceChars)
        /\ IsDottedIntegers(StripPeriod(Drop(head, w)))
IsLetterShape(head) == Len(head) = 2 /\ head[1] \in UpperAscii /\ head[2] = "."
IsRomanShape(head) ==
    /\ Len(head) >= 2 /\ head[Len(head)] = "."
    /\ AllIn(StripPeriod(head), {"I", "V", "X"})

\* The results the claim allows for trimmed text t under one shape: head,
\* white space, non-empty text (on one line when oneLine).
ShapeResults(IsShape(_), t, oneLine) ==
    {[number |-> StripPeriod(SubSeq(t, 1, k)), text |-> Trim(Drop(t, m))] :
        <<k, m>> \in {km \in (1..Len(t)) \X (1..Len(t)) :
            /\ km[1] < km[2] /\ km[2] < Len(t)
            /\ IsShape(SubSeq(t, 1, km[1]))
            /\ AllIn(SubSeq(t, km[1] + 1, km[2]), WhitespaceChars)
            /\ Trim(Drop(t, km[2])) # <<>>
            /\ (oneLine => \A i \in (km[2] + 1)..Len(t) : t[i] # "\n")}}

\* First shape with a result wins; the set of claimed results (empty: none).
ClaimedHeadingNumbers(text, oneLine) ==
    LET t == Trim(text)
        r1 == ShapeResults(IsDecimalShape, t, oneLine)
        r2 == ShapeResults(IsSectionShape, t, oneLine)
        r3 == ShapeResults(IsLetterShape, t, oneLine)
        r4 == ShapeResults(IsRomanShape, t, oneLine)
    IN  IF r1 # {} THEN r1 ELSE IF r2 # {} THEN r2 ELSE IF r3 # {} THEN r3 ELSE r4

AsSet(option) == {option[i] : i \in 1..Len(option)}
HN(number, text) == Some([number |-> S(number), text |-> S(text)])

\* The table of the claim.
HeadingNumberTable ==
    /\ (arg = S("1 Title") \/ arg = S("Heading 1") \/ arg = S("Version 2")
            \/ arg = S("Introduction")) => ret = None
    /\ arg = S("1. Introduction") => ret = HN("1", "Introduction")
    /\ arg = S("1.1 Project Overview") => ret = HN("1.1", "Project Overview")
    /\ arg = S("A. First Section") => ret = HN("A", "First Section")
    /\ arg = S("I. Roman Numeral") => ret = HN("I", "Roman Numeral")
    /\ arg = S("Section 1.2 Overview") => ret = HN("Section 1.2", "Overview")

\* C5 as stated: the result is the first of the four shapes that the trimmed
\* text has, each followed by white space and non-empty text, as (number
\* without its trailing period, remaining text trimmed), and none otherwise.
C5_Original ==
    pc = "heading_text_done" =>
        /\ AsSet(ret) = ClaimedHeadingNumbers(arg, FALSE)
        /\ HeadingNumberTable

\* C5 amended: the same, where the text after the white space is on one line
\* (holds no line feed).
C5_HeadingNumberExtraction ==
    pc = "heading_text_done" =>
        /\ AsSet(ret) = ClaimedHeadingNumbers(arg, TRUE)
        /\ HeadingNumberTable

\* A text with surrounding white space, a two-part number and a trailing period.
C5_Witness ==
    /\ pc = "heading_text_done" /\ arg = S("  1.1. Title  ")
    /\ ret = HN("1.1", "Title")

---------------------------------------------------------------------------
(* parsing/table.rs: cell data types, column widths and alignments.        *)

\* unicode_segmentation graphemes(.., true): the characters in use with a
\* Grapheme_Cluster_Break property other than Any.
GraphemeExtend == {"U+0307", "U+0302"}
GraphemeControl == {"\t", "\n", "\r"}

\* No cluster boundary before t[i]: CR x LF (GB3); a combining mark joins
\* the character before it (GB9) unless that is a control, CR or LF (GB4).
JoinsPrevious(t, i) ==
    \/ t[i - 1] = "\r" /\ t[i] = "\n"
    \/ t[i] \in GraphemeExtend /\ t[i - 1] \notin GraphemeControl

\* unicode_segmentation graphemes(.., true).count()
GraphemeCount(t) ==
    Cardinality({i \in 1..Len(t) : i = 1 \/ ~JoinsPrevious(t, i)})

IsAllDigits(t) == t # <<>> /\ \A i \in 1..Len(t) : IsDigit(t[i])

\* str::replace(c, "")
Remove(t, c) == SelectSeq(t, LAMBDA x : x # c)

\* str::split on a set of separator characters.
RECURSIVE SplitOn(_, _)
SplitOn(t, seps) ==
    IF \A i \in 1..Len(t) : t[i] \notin seps THEN <<t>>
    ELSE LET k == CHOOSE i \in 1..Len(t) :
                      t[i] \in seps /\ \A j \in 1..(i - 1) : t[j] \notin seps
         IN  <<SubSeq(t, 1, k - 1)>> \o SplitOn(Drop(t, k), seps)

\* str::parse::<f64>().is_ok(): an optional sign, then inf / infinity / nan
\* in any case, or decimal digits with an optional point and an optional
\* exponent.
ParsesF64(t) ==
    LET body == IF t # <<>> /\ t[1] \in {"+", "-"} THEN Tail(t) ELSE t
        epos == {i \in 1..Len(body) : body[i] \in {"e", "E"}}
        e == IF epos = {} THEN Len(body) + 1
             ELSE CHOOSE i \in epos : \A j \in epos : i <= j
        mantissa == SubSeq(body, 1, e - 1)
        exponent == Drop(body, e)
        exp_digits == IF exponent # <<>> /\ exponent[1] \in {"+", "-"}
                      THEN Tail(exponent) ELSE exponent
        parts == SplitOn(mantissa, {"."})
    IN  \/ ToLowercase(body) \in {S("inf"), S("infinity"), S("nan")}
        \/ /\ Len(parts) <= 2
           /\ \A k \in 1..Len(parts) : parts[k] = <<>> \/ IsAllDigits(parts[k])
           /\ \E k \in 1..Len(parts) : parts[k] # <<>>
           /\ e <= Len(body) => IsAllDigits(exp_digits)

\* Comparison of two digit strings of equal length as numbers.
RECURSIVE DigitsLeq(_, _)
DigitsLeq(a, b) ==
    IF a = <<>> THEN TRUE
    ELSE IF a[1] = b[1] THEN DigitsLeq(Tail(a), Tail(b))
    ELSE IndexIn(a[1], S("0123456789")) < IndexIn(b[1], S("0123456789"))

RECURSIVE StripZeros(_)
StripZeros(t) == IF Len(t) > 1 /\ t[1] = "0" THEN StripZeros(Tail(t)) ELSE t

\* str::parse::<u32>().is_ok()
ParsesU32(t) ==
    LET ds == IF t # <<>> /\ t[1] = "+" THEN Tail(t) ELSE t
    IN  /\ IsAllDigits(ds)
        /\ \/ Len(StripZeros(ds)) < 10
           \/ Len(StripZeros(ds)) = 10 /\ DigitsLeq(StripZeros(ds), S("4294967295"))

\* table.rs: detect_cell_data_type
DetectCellDataType(content) ==
    LET trimmed == Trim(content)
        number_candidate == Remove(trimmed, ",")
        parts == SplitOn(trimmed, {"/", "-"})
    IN  IF trimmed = <<>> THEN "Empty"
        ELSE IF trimmed[1] \in {"$", "U+20AC", "U+00A3"} THEN "Currency"
        ELSE IF trimmed[Len(trimmed)] = "%" THEN "Percentage"
        ELSE IF ToLowercase(trimmed) \in
                    {S("true"), S("false"), S("yes"), S("no"), S("y"), S("n")}
        THEN "Boolean"
        ELSE IF ParsesF64(number_candidate) THEN "Number"
        ELSE IF /\ Contains(trimmed, S("/")) \/ Contains(trimmed, S("-"))
                /\ Len(parts) = 3
                /\ \A k \in 1..Len(parts) : ParsesU32(parts[k])
        THEN "Date"
        ELSE "Text"

\* table.rs: default_alignment_for_type
DefaultAlignmentForType(data_type) ==
    IF data_type \in {"Number", "Currency", "Percentage"} THEN "Right"
    ELSE IF data_type = "Boolean" THEN "Center"
    ELSE "Left"

\* table.rs: TableCell::new
NewTableCell(content) ==
    [content |-> content,
     alignment |-> DefaultAlignmentForType(DetectCellDataType(content)),
     formatting |-> DefaultFormatting,
     data_type |-> DetectCellDataType(content)]

\* table.rs: TableCell::display_width
DisplayWidth(cell) == GraphemeCount(cell.content)

\* table.rs: calculate_column_widths
CalculateColumnWidths(headers, rows) ==
    IF headers = <<>> THEN <<>>
    ELSE [i \in 1..Len(headers) |->
            LET column == {DisplayWidth(headers[i])}
                            \cup {DisplayWidth(rows[r][i]) :
                                     r \in {r \in 1..Len(rows) : i <= Len(rows[r])}}
            IN  Max(3, CHOOSE w \in column : \A v \in column : v <= w)]

\* The single-precision value of 0.7, in units of 2^-24.
SeventyPercentF32 == 11744051
TwoTo24 == 16777216

\* Division rounded to the nearest integer, ties to even.
RoundHalfEven(a, b) ==
    LET q == a \div b
        r == a % b
    IN  IF 2 * r > b \/ (2 * r = b /\ q % 2 = 1) THEN q + 1 ELSE q

\* A plausible slip: the comparison lets the threshold itself through.
AtLeast70Percent(numeric_count, total_count) ==
    10 * numeric_count >= 7 * total_count

\* (numeric_count as f32 / total_count as f32) > 0.7, in single precision:
\* a quotient in [1/2, 1) is a multiple of 2^-24, rounded to nearest-even.
MoreThan70Percent(numeric_count, total_count) ==
    IF 2 * numeric_count < total_count THEN FALSE
    ELSE IF numeric_count = total_count THEN TRUE
    ELSE RoundHalfEven(numeric_count * TwoTo24, total_count) > SeventyPercentF32

\* table.rs: determine_column_alignments
DetermineColumnAlignments(headers, rows) ==
    [col \in 1..Len(headers) |->
        LET present == {r \in 1..Len(rows) : col <= Len(rows[r])}
            total_count == Cardinality(present)
            numeric_count ==
                Cardinality({r \in present :
                    rows[r][col].data_type \in {"Number", "Currency", "Percentage"}})
        IN  IF total_count > 0 /\ MoreThan70Percent(numeric_count, total_count)
            THEN "Right" ELSE "Left"]

\* table.rs: TableData::new
TableDataNew(headers, rows) ==
    [headers |-> headers,
     rows |-> rows,
     metadata |-> [column_count |-> Len(headers),
                   row_count |-> Len(rows),
                   has_headers |-> headers # <<>>,
                   column_widths |-> CalculateColumnWidths(headers, rows),
                   column_alignments |-> DetermineColumnAlignments(headers, rows),
                   title |-> None]]

---------------------------------------------------------------------------
(* models.rs: DocumentElement.  An element is a record with a `type` field *)
(* naming the variant and the variant's fields.  Elements built by         *)
(* load_document carry one more field, `origin`: the position in the       *)
(* source of the child (or children) the element was made from; no         *)
(* operation reads it.                                                     *)

Heading(level, text, number, origin) ==
    [type |-> "Heading", level |-> level, text |-> text, number |-> number,
     origin |-> origin]
Paragraph(runs, origin) == [type |-> "Paragraph", runs |-> runs, origin |-> origin]
ListItem(runs, level, origin) == [runs |-> runs, level |-> level, origin |-> origin]
List(items, ordered) == [type |-> "List", items |-> items, ordered |-> ordered]
\* TableCell::new(content).with_formatting(formatting)
TableCell(content, formatting) ==
    [NewTableCell(content) EXCEPT !.formatting = formatting]
Table(headers, rows, origin) ==
    [type |-> "Table", table |-> TableDataNew(headers, rows), origin |-> origin]
Image(description, origin) ==
    [type |-> "Image", description |-> description, origin |-> origin]
Equation(latex, fallback, origin) ==
    [type |-> "Equation", latex |-> latex, fallback |-> fallback, origin |-> origin]
PageBreak == [type |-> "PageBreak"]

---------------------------------------------------------------------------
(* query.rs: search_document.                                              *)

SearchResult(element_index, text, start_pos, end_pos) ==
    [element_index |-> element_index, text |-> text,
     start_pos |-> start_pos, end_pos |-> end_pos]

\* The search of one text unit: text.to_lowercase().find(&query_lower), and the
\* result pushed when found.
SearchText(element_index, text, q) ==
    LET start_pos == Find(ToLowercase(text), ToLowercase(q))
    IN  IF start_pos >= 0
        THEN <<SearchResult(element_index, text, start_pos, start_pos + ByteLen(q))>>
        ELSE <<>>

\* The text units of one element, in the order search_document visits them.
SearchUnits(element) ==
    CASE element.type = "Heading" -> <<element.text>>
      [] element.type = "Paragraph" -> <<RunsText(element.runs)>>
      [] element.type = "List" ->
            [i \in 1..Len(element.items) |-> RunsText(element.items[i].runs)]
      [] element.type = "Table" ->
            [i \in 1..Len(element.table.headers) |-> element.table.headers[i].content]
            \o Concat([r \in 1..Len(element.table.rows) |->
                          [c \in 1..Len(element.table.rows[r]) |->
                              element.table.rows[r][c].content]])
      [] element.type = "Image" -> <<element.description>>
      [] element.type = "Equation" -> <<element.latex>>
      [] element.type = "PageBreak" -> <<>>

\* search_document: element_index is the 0-based index of the element.
SearchDocument(elems, q) ==
    IF q = <<>> THEN <<>>
    ELSE Concat([e \in 1..Len(elems) |->
            LET units == SearchUnits(elems[e])
            IN  Concat([u \in 1..Len(units) |-> SearchText(e - 1, units[u], q)])])

\* The documents and queries the search is run on.
PlainRun(s) == FormattedRun(s, DefaultFormatting)
SearchElementPalette ==
    {Heading(1, S("Ab  a"), None, 0),
     Paragraph(<<PlainRun(S("a")), FormattedRun(S("B a"), Bold)>>, 0),
     Paragraph(<<PlainRun(<<"U+1E9E", "a", "b">>)>>, 0),
     List(<<ListItem(<<PlainRun(S("ab"))>>, 0, 0),
            ListItem(<<PlainRun(S("x AB"))>>, 1, 0)>>, FALSE),
     Table(<<TableCell(S("Ab"), Bold)>>,
           <<<<TableCell(<<"U+00DF">>, DefaultFormatting)>>,
             <<TableCell(S("b"), DefaultFormatting),
               TableCell(S("a b"), DefaultFormatting)>>>>, 0),
     Image(S("A b"), 0),
     Equation(S("a^b"), S("ab"), 0),
     PageBreak}
QueryPalette ==
    {<<>>, S(" "), S("  "), S("ab"), S("AB"), S("Ab"), S("b"), S("B"),
     <<"U+1E9E">>, <<"U+00DF">>}

\* A loaded Document; search_document is then called with one query after
\* another.  calls holds the previous call: its query and its results.
InitSearch ==
    /\ pc = "search"
    /\ elements \in SeqsUpTo(SearchElementPalette, MaxElems)
    /\ query = Null /\ results = Null
    /\ calls = <<>>
    /\ counters = <<>>
    /\ src = <<>> /\ child_i = 0 /\ word_count = 0 /\ heading_tracker = Null
    /\ inline_paragraphs = <<>> /\ display_equations_by_para = <<>>
    /\ IdlePure

CallSearchDocument ==
    /\ pc \in {"search", "search_done"}
    /\ \E q \in QueryPalette :
          /\ query' = q
          /\ results' = SearchDocument(elements, q)
    /\ calls' = IF pc = "search" THEN <<>>
                ELSE <<[query |-> query, results |-> results]>>
    /\ pc' = "search_done"
    /\ UNCHANGED <<src, child_i, elements, word_count, counters, heading_tracker,
                   inline_paragraphs, display_equations_by_para, pureVars>>

NextSearch == CallSearchDocument

SpecSearch == InitSearch /\ [][NextSearch]_vars

\* C8: an empty query and a query of white space alone give no results.
C8_BlankQueryNoResults ==
    (pc = "search_done" /\ Trim(query) = <<>>) => results = <<>>

\* C9: two queries that differ only in letter case give result lists of the
\* same length with, position by position, the same element_index, text,
\* start_pos and end_pos.
C9_CaseInsensitive ==
    (pc = "search_done" /\ calls # <<>>
        /\ ToLowercase(calls[1].query) = ToLowercase(query))
    => /\ Len(calls[1].results) = Len(results)
       /\ \A i \in 1..Len(results) :
             /\ calls[1].results[i].element_index = results[i].element_index
             /\ calls[1].results[i].text = results[i].text
             /\ calls[1].results[i].start_pos = results[i].start_pos
             /\ calls[1].results[i].end_pos = results[i].end_pos

\* The characters of t from byte offset a up to byte offset b, when both
\* offsets fall between characters.
ByteSlice(t, a, b) ==
    {SubSeq(t, i + 1, j) : <<i, j>> \in
        {ij \in (0..Len(t)) \X (0..Len(t)) :
            /\ ij[1] <= ij[2]
            /\ ByteLen(SubSeq(t, 1, ij[1])) = a
            /\ ByteLen(SubSeq(t, 1, ij[2])) = b}}

\* The searched text units of a document, each with the index of its element.
UnitsOf(elems) ==
    Concat([e \in 1..Len(elems) |->
              LET units == SearchUnits(elems[e])
              IN  [u \in 1..Len(units) |-> [element_index |-> e - 1, text |-> units[u]]]])

\* C10: every result has element_index below the number of elements,
\* start_pos < end_pos, end_pos - start_pos the length of the query, and
\* text[start_pos..end_pos] is the first case-insensitive occurrence of the
\* query in the result's text; a text unit gives at most one result and the
\* results are in non-decreasing element_index.
C10_PositionAccurate ==
    pc = "search_done" =>
        /\ \A i \in 1..Len(results) :
              LET r == results[i]
              IN  /\ r.element_index < Len(elements)
                  /\ r.start_pos < r.end_pos
                  /\ r.end_pos - r.start_pos = ByteLen(query)
                  /\ \E m \in ByteSlice(r.text, r.start_pos, r.end_pos) :
                        ToLowercase(m) = ToLowercase(query)
                  /\ \A a \in 0..(r.start_pos - 1), b \in 0..ByteLen(r.text) :
                        \A m \in ByteSlice(r.text, a, b) :
                            ToLowercase(m) # ToLowercase(query)
        /\ Len(results) <= Len(UnitsOf(elements))
        /\ \A i \in 1..(Len(results) - 1) :
              results[i].element_index <= results[i + 1].element_index

---------------------------------------------------------------------------
(* The source package as load_document reads it: the children of the       *)
(* document body, in order.  docx-rs and the two XML scans read the same   *)
(* children; what each of them sees of a child is stated by the operators  *)
(* below.                                                                   *)
(*   paragraph (w:p): style (w:pStyle), numPr (w:numPr) and children;      *)
(*     a child is a run (w:r with one w:t), an inline equation (m:oMath)   *)
(*     or a display equation block (m:oMathPara holding m:oMath);          *)
(*     a paragraph without properties and children is written either as  *)
(*     the pair <w:p></w:p> or as the empty-element tag <w:p/>            *)
(*     (empty_tag), which docx-rs reads alike and the XML scans do not;   *)
(*     an m:oMath without content is likewise <m:oMath></m:oMath> or     *)
(*     <m:oMath/> (empty_tag), and the scans record only the first;       *)
(*   table (w:tbl): rows of cells, each cell a sequence of paragraphs.     *)
(* An equation is given by the OMML text inside its m:oMath element.       *)

Run(text, formatting) == [kind |-> "r", text |-> text, formatting |-> formatting]
OMath(omml) == [kind |-> "oMath", omml |-> omml, empty_tag |-> FALSE]
\* The equation <m:oMath/>: quick-xml reports it as Event::Empty.
EmptyElementOMath == [kind |-> "oMath", omml |-> <<>>, empty_tag |-> TRUE]
OMathPara(eqs) == [kind |-> "oMathPara", eqs |-> eqs]
NumPr(id, level) == [id |-> id, level |-> level]
SrcParagraph(style, numPr, children) ==
    [kind |-> "p", style |-> style, numPr |-> numPr, children |-> children,
     empty_tag |-> FALSE]
\* The paragraph <w:p/>: quick-xml reports it as Event::Empty.
EmptyElementParagraph ==
    [kind |-> "p", style |-> None, numPr |-> None, children |-> <<>>,
     empty_tag |-> TRUE]
SrcTable(rows) == [kind |-> "tbl", rows |-> rows]

\* The Run children of a paragraph, as docx-rs yields them.
RunsOf(para) ==
    SelectSeq(para.children, LAMBDA c : c.kind = "r")

\* text[..n] and text[n..] for a byte offset n.
BytePrefix(t, n) ==
    SubSeq(t, 1, CHOOSE k \in 0..Len(t) : ByteLen(SubSeq(t, 1, k)) = n)
ByteSuffix(t, n) == Drop(t, Len(BytePrefix(t, n)))

\* chars().nth(k)
Nth(t, k) == IF k + 1 <= Len(t) THEN Some(t[k + 1]) ELSE None

\* formatting.rs: extract_paragraph_text (runs of text only).
ExtractParagraphText(para) ==
    Trim(Concat([i \in 1..Len(RunsOf(para)) |-> RunsOf(para)[i].text]))

\* usize as u8: the low eight bits.
AsU8(n) == n % 256

\* formatting.rs: extract_numbering_info.  w:ilvl is read as a usize and
\* cast to u8 (line 102); w:numId is cast to i32 (line 101), which keeps
\* every id the model can hold (below 2^31).
ExtractNumberingInfo(num_pr) ==
    IF num_pr.id = None THEN None
    ELSE Some(<<num_pr.id[1],
                IF num_pr.level = None THEN 0 ELSE AsU8(num_pr.level[1])>>)

\* formatting.rs: reconstruct_heading_number
ReconstructHeadingNumber(num_id, level, heading_level) ==
    CASE level = 0 /\ heading_level = 1 -> S("1")
      [] level = 1 /\ heading_level = 2 -> S("1.1")
      [] level = 2 /\ heading_level = 3 -> S("1.1.1")
      [] level = 3 /\ heading_level = 4 -> S("1.1.1.1")
      [] OTHER -> CASE heading_level = 1 -> S("1")
                    [] heading_level = 2 -> S("1.1")
                    [] heading_level = 3 -> S("1.1.1")
                    [] OTHER -> S("1.1.1.1")

\* char::to_digit(10)
ToDigit(c) == IF IsDigit(c) THEN Some(IndexIn(c, S("0123456789")) - 1) ELSE None

\* heading.rs: detect_heading_from_paragraph_style
DetectHeadingFromParagraphStyle(para) ==
    IF para.style # None
       /\ (StartsWith(para.style[1], S("Heading")) \/ StartsWith(para.style[1], S("heading")))
    THEN LET val == para.style[1]
             level == ToDigit(val[Len(val)])
         IN  IF level # None THEN Some(Min(level[1], 6)) ELSE Some(1)
    ELSE None

HeadingInfo(level, number, clean_text) ==
    [level |-> level, number |-> number, clean_text |-> clean_text]

\* heading.rs: detect_heading_with_numbering
DetectHeadingWithNumbering(para) ==
    LET heading_level == DetectHeadingFromParagraphStyle(para)
        text == ExtractParagraphText(para)
        manual == ExtractHeadingNumberFromText(text)
        info == IF para.numPr = None THEN None ELSE ExtractNumberingInfo(para.numPr[1])
    IN  IF heading_level = None THEN None
        ELSE IF manual # None
        THEN Some(HeadingInfo(heading_level[1], Some(manual[1].number),
                              Some(manual[1].text)))
        ELSE IF info # None
        THEN Some(HeadingInfo(heading_level[1],
                    Some(ReconstructHeadingNumber(info[1][1], info[1][2], heading_level[1])),
                    Some(text)))
        ELSE Some(HeadingInfo(heading_level[1], None, None))

\* legacy.rs: detect_list_from_paragraph_numbering
ListInfo(level, is_ordered, num_id) ==
    [level |-> level, is_ordered |-> is_ordered, num_id |-> num_id]
DetectListFromParagraphNumbering(para) ==
    IF para.numPr = None THEN None
    ELSE LET num_pr == para.numPr[1]
             level == IF num_pr.level = None THEN 0 ELSE AsU8(num_pr.level[1])
             num_id == num_pr.id
             is_ordered ==
                 IF num_id = None THEN FALSE
                 ELSE IF num_id[1] = 1 /\ level \in {0, 1, 2} THEN TRUE
                 ELSE IF num_id[1] = 1 THEN level % 2 = 1
                 ELSE TRUE
         IN  Some(ListInfo(level, is_ordered, num_id))

\* list.rs: is_likely_list_item
IsLikelyListItem(text0) ==
    LET text == Trim(text0)
        dot_pos == Find(text, S("."))
    IN  IF StartsWith(text, S("__WORD_LIST__")) THEN FALSE
        ELSE IF /\ text # <<>> /\ IsDigit(text[1]) /\ dot_pos >= 0
                /\ ByteLen(Trim(ByteSuffix(text, dot_pos + 1))) > 20
        THEN TRUE
        ELSE IF \/ StartsWith(text, <<"U+2022", " ">>)
                \/ StartsWith(text, S("- "))
                \/ StartsWith(text, S("* "))
        THEN TRUE
        ELSE /\ ByteLen(text) > 3
             /\ Nth(text, 1) = Some(".")
             /\ text[1] \in LowerAscii \cup UpperAscii

\* cleanup.rs: is_likely_sentence
IsLikelySentence(text0) ==
    LET text == Trim(text0)
    IN  \/ Cardinality(Occurrences(text, S(". "))) > 1
        \/ /\ ByteLen(text) > 80
           /\ \/ EndsWith(text, S(".")) \/ EndsWith(text, S("!"))
              \/ EndsWith(text, S("?"))
        \/ Contains(text, S(" and ")) \/ Contains(text, S(" but "))
        \/ Contains(text, S(" however ")) \/ Contains(text, S(" therefore "))

\* heading.rs: determine_heading_level_from_text
DetermineHeadingLevelFromText(text) ==
    IF ByteLen(text) < 20 THEN 1 ELSE IF ByteLen(text) < 40 THEN 2 ELSE 3

\* str::split_whitespace, as the sequence of words.
RECURSIVE SplitWhitespace(_)
SplitWhitespace(t) ==
    LET s == TrimStart(t)
    IN  IF s = <<>> THEN <<>>
        ELSE LET RECURSIVE WordEnd(_)
                 WordEnd(i) == IF i <= Len(s) /\ ~IsWhitespace(s[i])
                               THEN WordEnd(i + 1) ELSE i
                 e == WordEnd(1)
             IN  <<SubSeq(s, 1, e - 1)>> \o SplitWhitespace(Drop(s, e - 1))

\* heading.rs: detect_heading_from_text
DetectHeadingFromText(text0, formatting) ==
    LET text == Trim(text0)
        words == SplitWhitespace(text)
    IN  IF ~(ByteLen(text) < 100 /\ ~Contains(text, S("\n"))) THEN None
        ELSE IF IsLikelyListItem(text) \/ IsLikelySentence(text) THEN None
        ELSE IF \/ Contains(text, S(" the ")) \/ Contains(text, S(" and "))
                \/ Contains(text, S(" with ")) \/ Contains(text, S(" for "))
        THEN None
        ELSE IF /\ formatting.bold /\ ByteLen(text) < 60 /\ ByteLen(text) > 5
                /\ ~EndsWith(text, S(".")) /\ ~EndsWith(text, S(","))
                /\ ~EndsWith(text, S(";")) /\ ~EndsWith(text, S(":"))
        THEN Some(DetermineHeadingLevelFromText(text))
        ELSE IF /\ ByteLen(text) > 15 /\ ByteLen(text) < 50
                /\ \A i \in 1..Len(text) :
                      \/ IsUppercase(text[i]) \/ IsWhitespace(text[i])
                      \/ IsDigit(text[i]) \/ IsAsciiPunctuation(text[i])
        THEN Some(1)
        ELSE IF \/ StartsWith(text, S("Chapter ")) \/ StartsWith(text, S("Section "))
                \/ StartsWith(text, S("Part "))
        THEN Some(DetermineHeadingLevelFromText(text))
        ELSE IF /\ ByteLen(text) < 40 /\ ByteLen(text) > 10
                /\ ~EndsWith(text, S(".")) /\ ~Contains(text, S(","))
                /\ ~Contains(text, S("(")) /\ ~Contains(text, S(":"))
                /\ Len(words) \in 2..5
                /\ \E w \in 1..Len(words) :
                      /\ ByteLen(words[w]) > 3
                      /\ \A i \in 1..Len(words[w]) : IsAlphabetic(words[w][i])
                /\ text # <<>> /\ IsUppercase(text[1])
        THEN Some(DetermineHeadingLevelFromText(text))
        ELSE None

\* numbering.rs: HeadingNumberTracker::new
NewHeadingNumberTracker ==
    [counters |-> <<0, 0, 0, 0, 0, 0>>, auto_numbering_enabled |-> FALSE]

\* u8::saturating_sub(1), then min(5): the 0-based index of a level.
LevelIndex(level) == Min(IF level = 0 THEN 0 ELSE level - 1, 5)

\* parts.join(".")
RECURSIVE JoinDot(_)
JoinDot(parts) ==
    IF parts = <<>> THEN <<>>
    ELSE IF Len(parts) = 1 THEN parts[1]
    ELSE parts[1] \o S(".") \o JoinDot(Tail(parts))

\* A plausible slip: the deeper slots are not reset.
GetNumberKeepDeeper(tracker, level) ==
    IF ~tracker.auto_numbering_enabled
    THEN [tracker |-> tracker, text |-> <<>>]
    ELSE LET level_index == LevelIndex(level)
             cs == [i \in 1..6 |->
                      IF i = level_index + 1 THEN tracker.counters[i] + 1
                      ELSE tracker.counters[i]]
             used == SelectSeq([i \in 1..(level_index + 1) |-> i],
                               LAMBDA i : cs[i] > 0)
         IN  [tracker |-> [tracker EXCEPT !.counters = cs],
              text |-> JoinDot([k \in 1..Len(used) |-> DecimalString(cs[used[k]])])]

\* A plausible slip: the enabled flag is not consulted.
GetNumberAlways(tracker, level) ==
    LET level_index == LevelIndex(level)
        cs == [i \in 1..6 |->
                 IF i = level_index + 1 THEN tracker.counters[i] + 1
                 ELSE IF i > level_index + 1 THEN 0
                 ELSE tracker.counters[i]]
        used == SelectSeq([i \in 1..(level_index + 1) |-> i], LAMBDA i : cs[i] > 0)
    IN  [tracker |-> [tracker EXCEPT !.counters = cs],
         text |-> JoinDot([k \in 1..Len(used) |-> DecimalString(cs[used[k]])])]

\* A plausible slip: the string is built from the slots before the increment.
GetNumberBeforeIncrement(tracker, level) ==
    IF ~tracker.auto_numbering_enabled
    THEN [tracker |-> tracker, text |-> <<>>]
    ELSE LET level_index == LevelIndex(level)
             cs == [i \in 1..6 |->
                      IF i = level_index + 1 THEN tracker.counters[i] + 1
                      ELSE IF i > level_index + 1 THEN 0
                      ELSE tracker.counters[i]]
             old == tracker.counters
             used == SelectSeq([i \in 1..(level_index + 1) |-> i],
                               LAMBDA i : old[i] > 0)
         IN  [tracker |-> [tracker EXCEPT !.counters = cs],
              text |-> JoinDot([k \in 1..Len(used) |-> DecimalString(old[used[k]])])]

\* numbering.rs: HeadingNumberTracker::get_number: the tracker after the call
\* and the string returned.
GetNumber(tracker, level) ==
    IF ~tracker.auto_numbering_enabled
    THEN [tracker |-> tracker, text |-> <<>>]
    ELSE LET level_index == LevelIndex(level)
             cs == [i \in 1..6 |->
                      IF i = level_index + 1 THEN tracker.counters[i] + 1
                      ELSE IF i > level_index + 1 THEN 0
                      ELSE tracker.counters[i]]
             used == SelectSeq([i \in 1..(level_index + 1) |-> i],
                               LAMBDA i : cs[i] > 0)
         IN  [tracker |-> [tracker EXCEPT !.counters = cs],
              text |-> JoinDot([k \in 1..Len(used) |-> DecimalString(cs[used[k]])])]

\* The paragraphs of the document that carry a heading style.
StyledHeadings(children) ==
    SelectSeq(children,
              LAMBDA c : c.kind = "p" /\ DetectHeadingFromParagraphStyle(c) # None)

\* numbering.rs: analyze_heading_structure
AnalyzeHeadingStructure(children) ==
    LET hs == StyledHeadings(children)
        heading_count == Len(hs)
        has_explicit_numbering ==
            \E i \in 1..Len(hs) :
                ExtractHeadingNumberFromText(ExtractParagraphText(hs[i])) # None
        level_counts ==
            [k \in 1..6 |->
                Cardinality({i \in 1..Len(hs) :
                    LevelIndex(DetectHeadingFromParagraphStyle(hs[i])[1]) + 1 = k})]
        levels_with_headings == Cardinality({k \in 1..6 : level_counts[k] > 0})
    IN  IF has_explicit_numbering \/ heading_count < 3 THEN FALSE
        ELSE levels_with_headings > 1 \/ level_counts[1] > 1

---------------------------------------------------------------------------
(* legacy.rs: the passes of load_document.                                 *)

\* str::repeat
Repeat(t, n) == [i \in 1..(n * Len(t)) |-> t[((i - 1) % Len(t)) + 1]]

WordListMarker == S("__WORD_LIST__")

\* formatting.rs: extract_run_formatting.  A source run states its formatting
\* by the TextFormatting it yields; font_size is never read.
ExtractRunFormatting(run) == [run.formatting EXCEPT !.font_size = DefaultFormatting.font_size]

\* load_document, lines 102-123: the runs of a paragraph that hold text.
FormattedRunsOf(para) ==
    LET rs == SelectSeq(RunsOf(para), LAMBDA r : r.text # <<>>)
    IN  [i \in 1..Len(rs) |-> FormattedRun(rs[i].text, ExtractRunFormatting(rs[i]))]

\* load_document, lines 61-223: one Paragraph child, at position `origin` of
\* the source.  Gives the elements pushed and the state after.
ProcessParagraph(para, origin, cs, tracker) ==
    LET heading_info == DetectHeadingWithNumbering(para)
        list_info == DetectListFromParagraphNumbering(para)
        formatted_runs == FormattedRunsOf(para)
        total_text == RunsText(formatted_runs)
        same == [pushed |-> <<>>, words |-> 0, counters |-> cs, tracker |-> tracker]
    IN  IF Trim(total_text) = <<>> THEN same
        ELSE IF list_info # None
        THEN LET li == list_info[1]
                 indent == Repeat(S("  "), li.level)
                 gen == GenerateNumber(cs, li.num_id[1], li.level,
                                       GetNumberingFormat(li.num_id[1], li.level))
                 numbered == li.is_ordered /\ li.num_id # None
                 prefix == IF li.is_ordered
                           THEN IF li.num_id # None THEN gen.text
                                ELSE DecimalString(li.level + 1) \o S(". ")
                           ELSE S("* ")
                 prefix_run == FormattedRun(WordListMarker \o indent \o prefix,
                                            DefaultFormatting)
             IN  [same EXCEPT
                    !.pushed = <<Paragraph(<<prefix_run>> \o formatted_runs, origin)>>,
                    !.words = WordCount(total_text),
                    !.counters = IF numbered THEN gen.counters ELSE cs]
        ELSE IF heading_info # None
        THEN LET hi == heading_info[1]
                 heading_text == IF hi.clean_text # None THEN hi.clean_text[1]
                                 ELSE total_text
                 auto == GetNumber(tracker, hi.level)
                 number == IF hi.number # None THEN hi.number
                           ELSE IF auto.text = <<>> THEN None ELSE Some(auto.text)
             IN  [same EXCEPT
                    !.pushed = <<Heading(hi.level, heading_text, number, origin)>>,
                    !.words = WordCount(total_text),
                    !.tracker = IF hi.number # None THEN tracker ELSE auto.tracker]
        ELSE LET level == DetectHeadingFromText(total_text, formatted_runs[1].formatting)
             IN  [same EXCEPT
                    !.pushed = IF level # None
                               THEN <<Heading(level[1], total_text, None, origin)>>
                               ELSE <<Paragraph(ConsolidateRuns(formatted_runs), origin)>>,
                    !.words = WordCount(total_text)]

\* legacy.rs: appears_to_be_header
HeaderWords ==
    <<S("name"), S("date"), S("amount"), S("type"), S("status"), S("id"),
      S("description"), S("count")>>
AppearsToBeHeader(row) ==
    LET total_chars == ByteLen(Concat(row))
        avg_length == IF row # <<>> THEN total_chars \div Len(row) ELSE 0
        Indicator(cell) ==
            \/ WordCount(cell) <= 3 /\ Trim(cell) # <<>>
            \/ \E w \in 1..Len(HeaderWords) : Contains(ToLowercase(cell), HeaderWords[w])
        header_indicators == Cardinality({i \in 1..Len(row) : Indicator(row[i])})
    IN  IF avg_length > 50 THEN FALSE
        ELSE header_indicators > Len(row) \div 2

\* extract_table_data, lines 451-478: the text and formatting of one cell,
\* folded over the runs of the cell's paragraphs.
RECURSIVE CellFold(_, _, _)
CellFold(runs, cell_text, cell_formatting) ==
    IF runs = <<>> THEN TableCell(Trim(cell_text), cell_formatting)
    ELSE LET run == Head(runs)
             fmt == IF ~cell_formatting.bold /\ ~cell_formatting.italic
                    THEN ExtractRunFormatting(run) ELSE cell_formatting
             sep == IF cell_text # <<>> /\ ~EndsWith(cell_text, S(" "))
                    THEN S(" ") ELSE <<>>
         IN  CellFold(Tail(runs), cell_text \o sep \o run.text, fmt)
CellOf(cell) ==
    CellFold(Concat([i \in 1..Len(cell) |-> RunsOf(cell[i])]), <<>>, DefaultFormatting)

\* A plausible slip: a first row that fails the heuristic is not promoted.
ExtractTableDataNoPromotion(table, origin) ==
    LET all_rows == [r \in 1..Len(table.rows) |->
                        [c \in 1..Len(table.rows[r]) |-> CellOf(table.rows[r][c])]]
        rows == SelectSeq(all_rows, LAMBDA r : r # <<>>)
        first_is_header ==
            rows # <<>> /\ AppearsToBeHeader([c \in 1..Len(rows[1]) |-> rows[1][c].content])
        header_cells == IF first_is_header THEN rows[1] ELSE <<>>
        data_rows == IF first_is_header THEN Tail(rows) ELSE rows
    IN  IF header_cells # <<>> \/ data_rows # <<>>
        THEN Some(Table(header_cells, data_rows, origin))
        ELSE None

\* legacy.rs: extract_table_data (cell data types, alignment and the table
\* metadata are not part of the element here).
ExtractTableData(table, origin) ==
    LET all_rows == [r \in 1..Len(table.rows) |->
                        [c \in 1..Len(table.rows[r]) |-> CellOf(table.rows[r][c])]]
        rows == SelectSeq(all_rows, LAMBDA r : r # <<>>)
        first_is_header ==
            rows # <<>> /\ AppearsToBeHeader([c \in 1..Len(rows[1]) |-> rows[1][c].content])
        header_cells == IF first_is_header THEN rows[1] ELSE <<>>
        data_rows == IF first_is_header THEN Tail(rows) ELSE rows
    IN  IF header_cells = <<>> /\ data_rows # <<>>
        THEN Some(Table(Head(data_rows), Tail(data_rows), origin))
        ELSE IF header_cells # <<>> \/ data_rows # <<>>
        THEN Some(Table(header_cells, data_rows, origin))
        ELSE None

\* The w:p elements of word/document.xml that the scans count (Event::Start
\* of w:p, lines 799 and 928), in document order, each with the position of
\* the body child that holds it: a body paragraph, or the paragraphs of the
\* cells of a table.  A paragraph written <w:p/> is an Event::Empty, which
\* no arm of either scan matches outside an equation: it is not counted.
XmlParagraphs(children) ==
    Concat([i \in 1..Len(children) |->
        LET paras == IF children[i].kind = "p" THEN <<children[i]>>
                     ELSE Concat(Concat(children[i].rows))
            counted == SelectSeq(paras, LAMBDA para : ~para.empty_tag)
        IN  [k \in 1..Len(counted) |-> [para |-> counted[k], origin |-> i]]])

\* The text of a math run, as m:oMath holds it.
MathRun(text) == S("<m:r><m:t>") \o text \o S("</m:t></m:r>")

\* The outcome of a conversion: the text produced, or a panic.
Ok(text) == [ok |-> TRUE, text |-> text]
Panicked == [ok |-> FALSE, text |-> <<>>]
\* Option<String>, or a panic.
OkSome(text) == [ok |-> TRUE, some |-> TRUE, text |-> text]
OkNone == [ok |-> TRUE, some |-> FALSE, text |-> <<>>]
PanickedOption == [ok |-> FALSE, some |-> FALSE, text |-> <<>>]
\* extract_latex_text, lines 1313-1332: a nested conversion gives Some of
\* its result; plain text gives Some only when it is not empty.
AsOption(outcome, nested) ==
    IF ~outcome.ok THEN PanickedOption
    ELSE IF nested \/ outcome.text # <<>> THEN OkSome(outcome.text)
    ELSE OkNone

\* str::is_char_boundary
IsCharBoundary(t, n) == \E k \in 0..Len(t) : ByteLen(SubSeq(t, 1, k)) = n

\* str::find(p).unwrap_or(len)
FindOr(t, p) == IF Find(t, p) = -1 THEN ByteLen(t) ELSE Find(t, p)

\* str::split on a string separator.
RECURSIVE SplitStr(_, _)
SplitStr(t, p) ==
    IF ~Contains(t, p) THEN <<t>>
    ELSE LET i == CHOOSE k \in Occurrences(t, p) :
                      \A m \in Occurrences(t, p) : k <= m
         IN  <<SubSeq(t, 1, i - 1)>> \o SplitStr(Drop(t, i - 1 + Len(p)), p)

\* split("<m:t>").skip(1).filter_map(|s| s.split("</m:t>").next()).join("")
MathTexts(omml) ==
    LET pieces == Tail(SplitStr(omml, S("<m:t>")))
    IN  Concat([k \in 1..Len(pieces) |-> Head(SplitStr(pieces[k], S("</m:t>")))])

\* extract_text, after the opening tag was found.
ExtractTextInner(content, end_pos) ==
    IF end_pos = -1 THEN None
    ELSE IF BytePrefix(content, end_pos) = <<>> THEN None
    ELSE Some(BytePrefix(content, end_pos))

ExtractTextFrom(omml, start_tag, end_tag, start_pos) ==
    IF start_pos = -1 THEN None
    ELSE ExtractTextInner(
             ByteSuffix(omml, start_pos + ByteLen(start_tag)),
             Find(ByteSuffix(omml, start_pos + ByteLen(start_tag)), end_tag))

\* legacy.rs: extract_text
ExtractText(omml, tag) ==
    ExtractTextFrom(omml, S("<") \o tag \o S(">"), S("</") \o tag \o S(">"),
                    Find(omml, S("<") \o tag \o S(">")))

\* extract_latex_text, lines 1287-1311: the number of characters before the
\* closing tag that matches the opening one, or -1.
\* The characters the scan steps over one at a time (lines 1300-1307)
\* before pos is at a tag again or at the end of content.
NextTagAt(content, pos, start_tag, end_tag) ==
    LET stops == {k \in (pos + 1)..Len(content) :
                     \/ k = Len(content)
                     \/ StartsWith(Drop(content, k), start_tag)
                     \/ StartsWith(Drop(content, k), end_tag)}
    IN  CHOOSE n \in stops : \A m \in stops : n <= m

RECURSIVE MatchingEnd(_, _, _, _, _)
MatchingEnd(content, pos, depth, start_tag, end_tag) ==
    IF pos >= Len(content) THEN -1
    ELSE IF StartsWith(Drop(content, pos), start_tag)
    THEN MatchingEnd(content, pos + Len(start_tag), depth + 1, start_tag, end_tag)
    ELSE IF StartsWith(Drop(content, pos), end_tag)
    THEN IF depth = 1 THEN pos
         ELSE MatchingEnd(content, pos + Len(end_tag), depth - 1, start_tag, end_tag)
    ELSE MatchingEnd(content, NextTagAt(content, pos, start_tag, end_tag),
                     depth, start_tag, end_tag)

\* omml_to_latex, lines 1219-1251: the LaTeX of a character of a math run.
RunSymbolLatex(ch) ==
    CASE ch = "U+03C0" -> S("\\pi ")     [] ch = "U+03B1" -> S("\\alpha ")
      [] ch = "U+03B2" -> S("\\beta ")   [] ch = "U+03B3" -> S("\\gamma ")
      [] ch = "U+0393" -> S("\\Gamma ")  [] ch = "U+03B4" -> S("\\delta ")
      [] ch = "U+0394" -> S("\\Delta ")  [] ch = "U+03B8" -> S("\\theta ")
      [] ch = "U+03BB" -> S("\\lambda ") [] ch = "U+03BC" -> S("\\mu ")
      [] ch = "U+03C3" -> S("\\sigma ")  [] ch = "U+03A3" -> S("\\Sigma ")
      [] ch = "U+03C6" -> S("\\phi ")    [] ch = "U+03C9" -> S("\\omega ")
      [] ch = "U+03A9" -> S("\\Omega ")  [] ch = "U+221E" -> S("\\infty ")
      [] ch = "U+00B1" -> S("\\pm ")     [] ch = "U+00D7" -> S("\\times ")
      [] ch = "U+00F7" -> S("\\div ")    [] ch = "U+2264" -> S("\\leq ")
      [] ch = "U+2265" -> S("\\geq ")    [] ch = "U+2260" -> S("\\neq ")
      [] ch = "U+2248" -> S("\\approx ") [] ch = "U+2208" -> S("\\in ")
      [] ch = "U+2209" -> S("\\notin ")  [] ch = "U+2282" -> S("\\subset ")
      [] ch = "U+2283" -> S("\\supset ") [] ch = "U+222A" -> S("\\cup ")
      [] ch = "U+2229" -> S("\\cap ")    [] ch = "U+2205" -> S("\\emptyset ")
      [] ch = "U+221A" -> S("\\sqrt")
      [] OTHER -> <<ch>>

\* omml_to_latex, lines 1261-1268: the LaTeX of a character of a bare m:t.
TextSymbolLatex(ch) ==
    CASE ch = "U+03C0" -> S("\\pi")
      [] ch = "U+03B1" -> S("\\alpha")
      [] ch = "U+03B2" -> S("\\beta")
      [] OTHER -> <<ch>>

\* omml_to_latex, lines 1170-1191: the command of an n-ary operator.
NaryOperator(content) ==
    IF Find(content, S("m:val=\"")) = -1 THEN S("\\sum")
    ELSE LET after == ByteSuffix(content, Find(content, S("m:val=\"")) + 7)
         IN  IF Find(after, S("\"")) = -1 THEN S("\\sum")
             ELSE LET chr == BytePrefix(after, Find(after, S("\"")))
                  IN  CASE chr = <<"U+2211">> -> S("\\sum")
                        [] chr = <<"U+222B">> -> S("\\int")
                        [] chr = <<"U+222C">> -> S("\\iint")
                        [] chr = <<"U+222D">> -> S("\\iiint")
                        [] chr = <<"U+222E">> -> S("\\oint")
                        [] chr = <<"U+220F">> -> S("\\prod")
                        [] chr = <<"U+22C3">> -> S("\\bigcup")
                        [] chr = <<"U+22C2">> -> S("\\bigcap")
                        [] OTHER -> S("\\sum")

\* omml_to_latex: a structure the loop recognises, with its closing tag, the
\* number of bytes the loop steps past the offset of the closing tag, and
\* the tags of the parts it converts with extract_latex_text, in order.
Structure(kind, close, step, tags) ==
    [kind |-> kind, close |-> S(close), step |-> step, tags |-> tags]

\* omml_to_latex: the branch taken for the text at the current offset.
StructureAt(t) ==
    IF StartsWith(t, S("<m:sSup>"))
    THEN Structure("sSup", "</m:sSup>", 8, <<"m:e", "m:sup">>)
    ELSE IF StartsWith(t, S("<m:sSub>"))
    THEN Structure("sSub", "</m:sSub>", 8, <<"m:e", "m:sub">>)
    ELSE IF StartsWith(t, S("<m:sSub")) /\ StartsWith(t, S("<m:sSubSup>"))
    THEN Structure("sSubSup", "</m:sSubSup>", 12, <<"m:e", "m:sub", "m:sup">>)
    ELSE IF StartsWith(t, S("<m:d>"))
    THEN Structure("d", "</m:d>", 5, <<"m:e">>)
    ELSE IF StartsWith(t, S("<m:f>"))
    THEN Structure("f", "</m:f>", 5, <<"m:num", "m:den">>)
    ELSE IF StartsWith(t, S("<m:func>"))
    THEN Structure("func", "</m:func>", 8, <<"m:fName", "m:e">>)
    ELSE IF StartsWith(t, S("<m:rad>"))
    THEN Structure("rad", "</m:rad>", 7, <<"m:deg", "m:e">>)
    ELSE IF StartsWith(t, S("<m:nary"))
    THEN Structure("nary", "</m:nary>", 9, <<"m:sub", "m:sup", "m:e">>)
    ELSE IF StartsWith(t, S("<m:r>"))
    THEN Structure("r", "</m:r>", 5, <<>>)
    ELSE IF StartsWith(t, S("<m:t>"))
    THEN Structure("t", "</m:t>", 5, <<>>)
    ELSE Structure("none", "", 1, <<>>)

\* The text of a part when it is present, wrapped; nothing otherwise.
Wrapped(before, part, after) ==
    IF part.some THEN S(before) \o part.text \o S(after) ELSE <<>>

\* omml_to_latex, lines 1216-1254: the LaTeX of the text of a math run.
RunLatex(text) ==
    IF text # None
    THEN Concat([k \in 1..Len(text[1]) |-> RunSymbolLatex(text[1][k])])
    ELSE <<>>

\* omml_to_latex: what a branch appends to the result, from the content of
\* the structure and its converted parts.
Emit(kind, content, parts) ==
    CASE kind = "sSup" ->
            IF parts[1].some /\ parts[2].some
            THEN parts[1].text \o S("^{") \o parts[2].text \o S("}") ELSE <<>>
      [] kind = "sSub" ->
            IF parts[1].some /\ parts[2].some
            THEN parts[1].text \o S("_{") \o parts[2].text \o S("}") ELSE <<>>
      [] kind = "sSubSup" ->
            IF parts[1].some /\ parts[2].some /\ parts[3].some
            THEN parts[1].text \o S("_{") \o parts[2].text
                     \o S("}^{") \o parts[3].text \o S("}")
            ELSE <<>>
      [] kind = "d" -> S("\\left(") \o Wrapped("", parts[1], "") \o S("\\right)")
      [] kind = "f" ->
            IF parts[1].some /\ parts[2].some
            THEN (IF Contains(content, S("m:val=\"noBar\""))
                  THEN S("\\binom{") ELSE S("\\frac{"))
                     \o parts[1].text \o S("}{") \o parts[2].text \o S("}")
            ELSE <<>>
      [] kind = "func" -> Wrapped("\\", parts[1], "") \o Wrapped(" ", parts[2], "")
      [] kind = "rad" ->
            S("\\sqrt")
                \o (IF parts[1].text # S("2") /\ parts[1].text # <<>>
                    THEN Wrapped("[", parts[1], "]") ELSE <<>>)
                \o S("{") \o Wrapped("", parts[2], "") \o S("}")
      [] kind = "nary" ->
            NaryOperator(content) \o Wrapped("_{", parts[1], "}")
                \o Wrapped("^{", parts[2], "}") \o Wrapped(" ", parts[3], "")
      [] kind = "r" -> RunLatex(ExtractText(content, S("m:t")))
      [] kind = "t" -> Concat([k \in 1..Len(content) |-> TextSymbolLatex(content[k])])
      [] kind = "none" -> <<>>

\* omml_to_latex, else branch: the number of one-byte steps (i += 1) up to
\* the next offset where a structure starts, or to the end.
StepsToStructure(rest) ==
    LET stops == {k \in 1..Len(rest) :
                     k = Len(rest) \/ StructureAt(Drop(rest, k)).kind # "none"}
    IN  CHOOSE n \in stops : \A m \in stops : n <= m

RECURSIVE OmmlLoop(_, _)

\* extract_latex_text, lines 1313-1332: the text of a part, from the text
\* between its tags.
InnerLatex(inner, texts) ==
    IF Contains(inner, S("<m:"))
    THEN OmmlLoop(inner, <<>>)
    ELSE Ok(texts)

\* extract_latex_text, after the opening tag was found.
ExtractLatexInner(content, end_pos) ==
    IF end_pos = -1 THEN OkNone
    ELSE AsOption(InnerLatex(SubSeq(content, 1, end_pos),
                             MathTexts(SubSeq(content, 1, end_pos))),
                  Contains(SubSeq(content, 1, end_pos), S("<m:")))

\* legacy.rs: extract_latex_text
ExtractLatexFrom(omml, start_tag, end_tag, start_pos) ==
    IF start_pos = -1 THEN OkNone
    ELSE ExtractLatexInner(
             ByteSuffix(omml, start_pos + ByteLen(start_tag)),
             MatchingEnd(ByteSuffix(omml, start_pos + ByteLen(start_tag)),
                         0, 1, start_tag, end_tag))

ExtractLatexText(omml, tag) ==
    ExtractLatexFrom(omml, S("<") \o tag \o S(">"), S("</") \o tag \o S(">"),
                     Find(omml, S("<") \o tag \o S(">")))

\* omml_to_latex: one turn of the loop after the branch was chosen and its
\* parts were converted; n is the number of bytes the offset moves.
OmmlStep(rest, result, parts, emitted, n) ==
    IF \E k \in 1..Len(parts) : ~parts[k].ok THEN Panicked
    ELSE IF n >= ByteLen(rest) THEN Ok(result \o emitted)
    ELSE IF ~IsCharBoundary(rest, n) THEN Panicked
    ELSE OmmlLoop(ByteSuffix(rest, n), result \o emitted)

\* omml_to_latex: a branch that handles a structure, from the content of
\* the structure (the text up to its closing tag).
OmmlStructure(rest, result, st, content, parts, lead) ==
    OmmlStep(rest, result, parts, Emit(st.kind, content, parts),
             lead + ByteLen(content) + st.step)

\* omml_to_latex, else branch: the code steps one byte (i += 1) and slices
\* again.  The steps up to the next structure start are taken at once; a
\* step off the first byte of a multi-byte character panics at the slice
\* omml[i..].
OmmlSkip(rest, result, steps) ==
    IF \E j \in 1..steps : Utf8Len(rest[j]) > 1 THEN Panicked
    ELSE OmmlStep(rest, result, <<>>, <<>>, steps)

\* omml_to_latex: the content of a structure, omml[i..i + end], or for a
\* bare m:t omml[i + 4..i + 4 + end].
ContentOf(from, close) == BytePrefix(from, FindOr(from, close))

OmmlBranch(rest, result, st, content) ==
    IF st.kind = "none" THEN OmmlSkip(rest, result, StepsToStructure(rest))
    ELSE OmmlStructure(rest, result, st, content,
             [k \in 1..Len(st.tags) |-> ExtractLatexText(content, S(st.tags[k]))],
             IF st.kind = "t" THEN 4 ELSE 0)

OmmlAt(rest, result, st) ==
    OmmlBranch(rest, result, st,
               ContentOf(IF st.kind = "t" THEN ByteSuffix(rest, 4) ELSE rest, st.close))

\* omml_to_latex: the loop, on rest = omml[i..] and the result so far.
OmmlLoop(rest, result) ==
    IF rest = <<>> THEN Ok(result)
    ELSE OmmlAt(rest, result, StructureAt(rest))

\* legacy.rs: omml_to_latex
OmmlToLatex(omml) == OmmlLoop(omml, <<>>)

\* parse_simple_omml, lines 1030-1035
ParsedEquation(latex, fallback) ==
    IF latex = <<>> THEN [latex |-> fallback, fallback |-> fallback]
    ELSE [latex |-> latex, fallback |-> fallback]

\* legacy.rs: parse_simple_omml, when the conversion returns.
ParseSimpleOmml(omml) == ParsedEquation(OmmlToLatex(omml).text, MathTexts(omml))

\* quick_xml Reader with trim_text(true): text nodes lose their leading and
\* trailing whitespace.
RECURSIVE TrimTextNodes(_)
TrimTextNodes(xml) ==
    IF xml = <<>> THEN <<>>
    ELSE IF Head(xml) = "<"
    THEN LET e == IF Contains(xml, S(">"))
                  THEN CHOOSE k \in Occurrences(xml, S(">")) :
                           \A m \in Occurrences(xml, S(">")) : k <= m
                  ELSE Len(xml)
         IN  SubSeq(xml, 1, e) \o TrimTextNodes(Drop(xml, e))
    ELSE LET lt == IF Contains(xml, S("<"))
                   THEN CHOOSE k \in Occurrences(xml, S("<")) :
                            \A m \in Occurrences(xml, S("<")) : k <= m
                   ELSE Len(xml) + 1
         IN  Trim(SubSeq(xml, 1, lt - 1)) \o TrimTextNodes(Drop(xml, lt - 1))

\* ParagraphContent
ContentText(text) == [kind |-> "Text", text |-> text]
InlineEquation(latex, fallback) ==
    [kind |-> "InlineEquation", latex |-> latex, fallback |-> fallback]

InlineEquationOf(parsed) == InlineEquation(parsed.latex, parsed.fallback)

\* extract_inline_equation_positions: the content of one w:p.  An inline
\* equation is recorded at the End of an m:oMath whose Start set in_math
\* (lines 816-829); <m:oMath/> has neither event.
ParagraphContentOf(para) ==
    Concat([i \in 1..Len(para.children) |->
        LET c == para.children[i]
        IN  CASE c.kind = "r" -> IF c.text # <<>> THEN <<ContentText(c.text)>> ELSE <<>>
              [] c.kind = "oMath" ->
                    IF c.empty_tag THEN <<>>
                    ELSE <<InlineEquationOf(ParseSimpleOmml(c.omml))>>
              [] c.kind = "oMathPara" -> <<>>])

\* The entries of a HashMap<usize, Vec<_>> keyed by the 1-based index of a
\* w:p: the paragraphs with something to record.
NonEmptyEntries(by_para) ==
    [k \in {k \in 1..Len(by_para) : by_para[k] # <<>>} |-> by_para[k]]

\* The content of every w:p, in document order.
ParagraphContents(ps) == [k \in 1..Len(ps) |-> ParagraphContentOf(ps[k].para)]

\* legacy.rs: extract_inline_equation_positions: the map from the 1-based
\* index of a w:p to its content, for the paragraphs that have content.
ExtractInlineEquationPositions(children) ==
    NonEmptyEntries(ParagraphContents(XmlParagraphs(children)))

EquationOf(parsed, origin) == Equation(parsed.latex, parsed.fallback, origin)

\* extract_equations_from_docx with the filter of load_document, lines
\* 246-256: the display equations of one w:p (the scan trims text).
DisplayEquationsOf(para, origin) ==
    Concat([i \in 1..Len(para.children) |->
        LET c == para.children[i]
            eqs == IF c.kind = "oMathPara"
                   THEN SelectSeq(c.eqs, LAMBDA eq : ~eq.empty_tag) ELSE <<>>
        IN  [e \in 1..Len(eqs) |->
                EquationOf(ParseSimpleOmml(TrimTextNodes(eqs[e].omml)), origin)]])

\* The OMML texts the two scans convert for a child of a w:p: the first
\* scan converts the inline equations, the second every equation, with
\* text nodes trimmed.
ScannedOmml(c) ==
    IF c.kind = "oMath"
    THEN IF c.empty_tag THEN {} ELSE {c.omml, TrimTextNodes(c.omml)}
    ELSE IF c.kind = "oMathPara"
    THEN {TrimTextNodes(c.eqs[e].omml) : e \in {e \in 1..Len(c.eqs) : ~c.eqs[e].empty_tag}}
    ELSE {}

\* load_document, lines 236-240: a panic of omml_to_latex inside either scan
\* unwinds through load_document.
EquationPassesPanic(children) ==
    \E p \in {XmlParagraphs(children)[k] : k \in 1..Len(XmlParagraphs(children))} :
        \E i \in 1..Len(p.para.children) :
            \E omml \in ScannedOmml(p.para.children[i]) : ~OmmlToLatex(omml).ok

\* The display equations of every w:p, in document order.
DisplayEquationLists(ps) ==
    [k \in 1..Len(ps) |-> DisplayEquationsOf(ps[k].para, ps[k].origin)]

\* load_document, lines 240-256: display_equations_by_para
DisplayEquationsByPara(children) ==
    NonEmptyEntries(DisplayEquationLists(XmlParagraphs(children)))

\* load_document, lines 276-308: the runs rebuilt from the content of a w:p.
RECURSIVE RebuildRuns(_, _, _)
RebuildRuns(content_items, new_runs, accumulated_text) ==
    IF content_items = <<>>
    THEN IF accumulated_text # <<>>
         THEN Append(new_runs, FormattedRun(accumulated_text, DefaultFormatting))
         ELSE new_runs
    ELSE LET content == Head(content_items)
         IN  IF content.kind = "Text"
             THEN RebuildRuns(Tail(content_items), new_runs,
                              accumulated_text \o content.text)
             ELSE LET flushed == IF accumulated_text # <<>>
                                 THEN Append(new_runs, FormattedRun(accumulated_text,
                                                                   DefaultFormatting))
                                 ELSE new_runs
                      eq_run == FormattedRun(S("$") \o content.latex \o S("$"),
                                             DefaultFormatting)
                  IN  RebuildRuns(Tail(content_items), Append(flushed, eq_run), <<>>)

\* load_document, lines 258-332: the splice loop.
RECURSIVE SpliceEquations(_, _, _, _)
SpliceEquations(elems, para_index, inline, display) ==
    IF elems = <<>> THEN <<>>
    ELSE LET element == Head(elems)
             idx == para_index + 1
             out ==
                IF element.type # "Paragraph" THEN <<element>>
                ELSE IF idx \in DOMAIN inline
                THEN IF \E i \in 1..Len(inline[idx]) : inline[idx][i].kind = "InlineEquation"
                     THEN <<Paragraph(RebuildRuns(inline[idx], <<>>, <<>>), element.origin)>>
                     ELSE <<element>>
                ELSE IF idx \in DOMAIN display THEN display[idx]
                ELSE <<element>>
         IN  out \o SpliceEquations(Tail(elems),
                                    IF element.type = "Paragraph" THEN idx ELSE para_index,
                                    inline, display)

\* list.rs: calculate_list_level: (leading_spaces / 2) as u8
CalculateListLevel(text) == AsU8((ByteLen(text) - ByteLen(TrimStart(text))) \div 2)

\* list.rs: clean_list_item_runs, lines 134-166: the prefix to remove.
PrefixToRemove(text) ==
    LET dot_pos == Find(text, S("."))
    IN  IF StartsWith(text, <<"U+2022", " ">>) THEN <<"U+2022", " ">>
        ELSE IF StartsWith(text, S("- ")) THEN S("- ")
        ELSE IF StartsWith(text, S("* ")) THEN S("* ")
        ELSE IF dot_pos >= 0
        THEN IF \A i \in 1..Len(BytePrefix(text, dot_pos)) :
                    IsDigit(BytePrefix(text, dot_pos)[i])
             THEN BytePrefix(text, dot_pos
                     + IF Nth(text, dot_pos + 1) = Some(" ") THEN 2 ELSE 1)
             ELSE IF Len(text) > 2 /\ Nth(text, 1) = Some(".")
             THEN IF text[1] \in LowerAscii \cup UpperAscii
                  THEN BytePrefix(text, IF Nth(text, 2) = Some(" ") THEN 3 ELSE 2)
                  ELSE <<>>
             ELSE <<>>
        ELSE <<>>

\* list.rs: clean_list_item_runs, lines 172-199: the removal loop.
RECURSIVE RemovePrefixChars(_, _)
RemovePrefixChars(runs, chars_to_remove) ==
    IF runs = <<>> THEN <<>>
    ELSE LET run == Head(runs)
         IN  IF chars_to_remove = 0 THEN runs
             ELSE IF Len(run.text) <= chars_to_remove
             THEN RemovePrefixChars(Tail(runs), chars_to_remove - Len(run.text))
             ELSE <<FormattedRun(TrimStart(Drop(run.text, chars_to_remove)),
                                 run.formatting)>> \o Tail(runs)

\* list.rs: clean_list_item_runs
CleanListItemRuns(runs) ==
    LET prefix_to_remove == PrefixToRemove(Trim(RunsText(runs)))
    IN  IF runs = <<>> \/ prefix_to_remove = <<>> THEN runs
        ELSE RemovePrefixChars(runs, Len(prefix_to_remove))

\* A plausible slip: a change of the ordered flag does not flush the list.
RECURSIVE GroupLoopNoFlush(_, _, _, _)
GroupLoopNoFlush(elems, result, current_list_items, current_list_ordered) ==
    LET flushed == IF current_list_items # <<>>
                   THEN Append(result, List(current_list_items, current_list_ordered))
                   ELSE result
    IN  IF elems = <<>> THEN flushed
        ELSE LET element == Head(elems)
                 text == RunsText(element.runs)
                 is_ordered == Trim(text) # <<>> /\ IsDigit(Trim(text)[1])
             IN  IF element.type = "Paragraph" /\ IsLikelyListItem(text)
                 THEN GroupLoopNoFlush(Tail(elems), result,
                         Append(current_list_items,
                                ListItem(CleanListItemRuns(element.runs),
                                         CalculateListLevel(text), element.origin)),
                         is_ordered)
                 ELSE GroupLoopNoFlush(Tail(elems), Append(flushed, element), <<>>,
                                       current_list_ordered)

\* list.rs: group_list_items, the loop and the final flush.
RECURSIVE GroupLoop(_, _, _, _)
GroupLoop(elems, result, current_list_items, current_list_ordered) ==
    LET flushed == IF current_list_items # <<>>
                   THEN Append(result, List(current_list_items, current_list_ordered))
                   ELSE result
    IN  IF elems = <<>> THEN flushed
        ELSE LET element == Head(elems)
                 text == RunsText(element.runs)
                 is_ordered == Trim(text) # <<>> /\ IsDigit(Trim(text)[1])
             IN  IF element.type = "Paragraph" /\ IsLikelyListItem(text)
                 THEN GroupLoop(Tail(elems),
                         IF current_list_items # <<>> /\ is_ordered # current_list_ordered
                         THEN flushed ELSE result,
                         Append(IF current_list_items # <<>>
                                   /\ is_ordered # current_list_ordered
                                THEN <<>> ELSE current_list_items,
                                ListItem(CleanListItemRuns(element.runs),
                                         CalculateListLevel(text), element.origin)),
                         is_ordered)
                 ELSE GroupLoop(Tail(elems), Append(flushed, element), <<>>,
                                current_list_ordered)

\* list.rs: group_list_items
GroupListItems(elems) == GroupLoop(elems, <<>>, <<>>, FALSE)

\* str::strip_prefix(..).unwrap_or(text)
StripPrefix(text, prefix) ==
    IF StartsWith(text, prefix) THEN Drop(text, Len(prefix)) ELSE text

\* cleanup.rs: clean_word_list_markers
CleanWordListMarkers(elems) ==
    [e \in 1..Len(elems) |->
        LET element == elems[e]
        IN  CASE element.type = "Paragraph" ->
                   [element EXCEPT !.runs =
                       [i \in 1..Len(element.runs) |->
                           [element.runs[i] EXCEPT
                               !.text = StripPrefix(element.runs[i].text, WordListMarker)]]]
              [] element.type = "List" ->
                   [element EXCEPT !.items =
                       [k \in 1..Len(element.items) |->
                           LET item == element.items[k]
                           IN  IF StartsWith(RunsText(item.runs), WordListMarker)
                                  /\ item.runs # <<>>
                               THEN [item EXCEPT !.runs[1].text =
                                        StripPrefix(item.runs[1].text, WordListMarker)]
                               ELSE item]]
              [] OTHER -> element]

\* The keys of a map in increasing order (keys().copied().collect(), sorted).
RECURSIVE SortedKeys(_)
SortedKeys(keys) ==
    IF keys = {} THEN <<>>
    ELSE LET k == CHOOSE x \in keys : \A y \in keys : x <= y
         IN  <<k>> \o SortedKeys(keys \ {k})

\* io.rs: merge_display_equations, lines 75-81: the equations taken off the
\* front of eq_para_indices before an element.
RECURSIVE TakeBefore(_, _)
TakeBefore(eq_para_indices, element_para_index) ==
    IF eq_para_indices # <<>> /\ Head(eq_para_indices) < element_para_index
    THEN 1 + TakeBefore(Tail(eq_para_indices), element_para_index)
    ELSE 0

\* io.rs: merge_display_equations, lines 68-101.
RECURSIVE MergeLoop(_, _, _, _)
MergeLoop(elems, eq_para_indices, element_para_index, display) ==
    IF elems = <<>>
    THEN Concat([i \in 1..Len(eq_para_indices) |-> display[eq_para_indices[i]]])
    ELSE LET element == Head(elems)
             counted == element.type \in {"Paragraph", "Heading", "List"}
             idx == IF counted THEN element_para_index + 1 ELSE element_para_index
             n == IF counted THEN TakeBefore(eq_para_indices, idx) ELSE 0
         IN  Concat([i \in 1..n |-> display[eq_para_indices[i]]])
             \o <<element>>
             \o MergeLoop(Tail(elems), Drop(eq_para_indices, n), idx, display)

\* io.rs: merge_display_equations
MergeDisplayEquations(elems, display) ==
    IF DOMAIN display = {} THEN elems
    ELSE MergeLoop(elems, SortedKeys(DOMAIN display), 0, display)

---------------------------------------------------------------------------
(* load_document as a state machine.  The source holds no drawing, so no   *)
(* Image element is made.                                                   *)

Plain(text) == Run(S(text), DefaultFormatting)
TextParagraph(style, numPr, text) == SrcParagraph(style, numPr, <<Plain(text)>>)
Cell(text) == <<TextParagraph(None, None, text)>>

\* An accented x as Word writes it: m:acc with a combining circumflex as the
\* accent character.
AccentOmml ==
    S("<m:acc><m:accPr><m:chr m:val=\"") \o <<"U+0302">> \o S("\"/></m:accPr><m:e>")
        \o MathRun(S("x")) \o S("</m:e></m:acc>")

ChildPalette ==
    {TextParagraph(Some(S("Heading1")), None, "Intro"),
     TextParagraph(Some(S("Heading2")), None, "Scope"),
     TextParagraph(Some(S("Heading0")), None, "Zero"),
     TextParagraph(Some(S("Heading9")), None, "1.1 Deep"),
     SrcParagraph(None, None, <<Plain("See "), Plain("text.")>>),
     SrcParagraph(None, None, <<Run(S("Summary"), Bold)>>),
     TextParagraph(None, Some(NumPr(Some(1), Some(0))), "one"),
     TextParagraph(None, Some(NumPr(None, Some(1))), "dot"),
     TextParagraph(None, None, "- item"),
     SrcParagraph(None, None, <<Plain("Let "), OMath(MathRun(S("x"))), Plain(" be")>>),
     SrcParagraph(None, None, <<OMathPara(<<OMath(MathRun(S("y")))>>)>>),
     SrcParagraph(None, None, <<Plain("Hat "), OMath(AccentOmml)>>),
     SrcParagraph(None, None, <<>>),
     EmptyElementParagraph,
     SrcParagraph(None, None, <<Plain("No "), EmptyElementOMath>>),
     TextParagraph(None, Some(NumPr(Some(1), Some(256))), "wrap"),
     SrcTable(<<<<<<EmptyElementParagraph>>>>>>),
     SrcTable(<<<<Cell("Name")>>, <<Cell("Ann")>>>>)}

InitLoad ==
    /\ pc = "analyze"
    /\ src \in SeqsUpTo(ChildPalette, MaxChildren)
    /\ child_i = 0
    /\ elements = <<>>
    /\ word_count = 0
    /\ counters = <<>>
    /\ heading_tracker = NewHeadingNumberTracker
    /\ inline_paragraphs = <<>>
    /\ display_equations_by_para = <<>>
    /\ IdleCalls /\ IdlePure /\ IdleSearch

\* load_document, lines 43-47
Analyze ==
    /\ pc = "analyze"
    /\ heading_tracker' =
          [heading_tracker EXCEPT
              !.auto_numbering_enabled = AnalyzeHeadingStructure(src)]
    /\ pc' = "first_pass"
    /\ UNCHANGED <<src, child_i, elements, word_count, counters, inline_paragraphs,
                   display_equations_by_para, callVars, pureVars, searchVars>>

\* load_document, lines 59-234: one turn of the loop over the children.
ProcessChild ==
    /\ pc = "first_pass"
    /\ child_i < Len(src)
    /\ LET child == src[child_i + 1]
       IN  IF child.kind = "p"
           THEN LET r == ProcessParagraph(child, child_i + 1, counters, heading_tracker)
                IN  /\ elements' = elements \o r.pushed
                    /\ word_count' = word_count + r.words
                    /\ counters' = r.counters
                    /\ heading_tracker' = r.tracker
           ELSE LET t == ExtractTableData(child, child_i + 1)
                IN  /\ elements' = elements \o t
                    /\ UNCHANGED <<word_count, counters, heading_tracker>>
    /\ child_i' = child_i + 1
    /\ UNCHANGED <<pc, src, inline_paragraphs, display_equations_by_para,
                   callVars, pureVars, searchVars>>

\* load_document, lines 236-256: the two scans of word/document.xml.
ExtractEquations ==
    /\ pc = "first_pass"
    /\ child_i = Len(src)
    /\ IF EquationPassesPanic(src)
       THEN /\ pc' = "panicked"
            /\ UNCHANGED <<inline_paragraphs, display_equations_by_para>>
       ELSE /\ inline_paragraphs' = ExtractInlineEquationPositions(src)
            /\ display_equations_by_para' = DisplayEquationsByPara(src)
            /\ pc' = "splice"
    /\ UNCHANGED <<src, child_i, elements, word_count, counters, heading_tracker,
                   callVars, pureVars, searchVars>>

\* load_document, lines 258-332
Splice ==
    /\ pc = "splice"
    /\ elements' = SpliceEquations(elements, 0, inline_paragraphs,
                                   display_equations_by_para)
    /\ pc' = "group"
    /\ UNCHANGED <<src, child_i, word_count, counters, heading_tracker,
                   inline_paragraphs, display_equations_by_para,
                   callVars, pureVars, searchVars>>

\* load_document, line 336
Group ==
    /\ pc = "group"
    /\ elements' = GroupListItems(elements)
    /\ pc' = "clean"
    /\ UNCHANGED <<src, child_i, word_count, counters, heading_tracker,
                   inline_paragraphs, display_equations_by_para,
                   callVars, pureVars, searchVars>>

\* load_document, line 339
Clean ==
    /\ pc = "clean"
    /\ elements' = CleanWordListMarkers(elements)
    /\ pc' = "merge"
    /\ UNCHANGED <<src, child_i, word_count, counters, heading_tracker,
                   inline_paragraphs, display_equations_by_para,
                   callVars, pureVars, searchVars>>

\* load_document, line 342; the Document is returned.
Merge ==
    /\ pc = "merge"
    /\ elements' = MergeDisplayEquations(elements, display_equations_by_para)
    /\ pc' = "done"
    /\ UNCHANGED <<src, child_i, word_count, counters, heading_tracker,
                   inline_paragraphs, display_equations_by_para,
                   callVars, pureVars, searchVars>>

NextLoad ==
    \/ Analyze \/ ProcessChild \/ ExtractEquations
    \/ Splice \/ Group \/ Clean \/ Merge

SpecLoad == InitLoad /\ [][NextLoad]_vars

\* The positions in the source of the items an element was made from.
OriginsOf(element) ==
    CASE element.type = "List" ->
            {element.items[i].origin : i \in 1..Len(element.items)}
      [] element.type = "PageBreak" -> {}
      [] OTHER -> {element.origin}

\* C1: in the Document load_document returns, an element made from source
\* item A comes before an element made from source item B whenever A comes
\* before B in the source (the paragraphs grouped into one List keep their
\* order inside it), display equations included.
C1_DocumentOrder ==
    pc = "done" =>
        \A i, j \in 1..Len(elements) :
            \A a \in OriginsOf(elements[i]), b \in OriginsOf(elements[j]) :
                a < b => (i < j \/ (i = j /\ elements[i].type = "List"))

NoEqualNeighbours(runs) ==
    \A i \in 1..(Len(runs) - 1) : runs[i].formatting # runs[i + 1].formatting

\* C4: in the Document load_document returns, no Paragraph element and no
\* ListItem has two adjacent runs of identical TextFormatting.
C4_LoadedRunsConsolidated ==
    pc = "done" =>
        \A e \in 1..Len(elements) :
            /\ elements[e].type = "Paragraph" => NoEqualNeighbours(elements[e].runs)
            /\ elements[e].type = "List" =>
                 \A k \in 1..Len(elements[e].items) :
                     NoEqualNeighbours(elements[e].items[k].runs)

\* C6: every Heading element of the Document load_document returns has a
\* level in 1..6, whatever digit the style name ends in.
C6_HeadingLevelRange ==
    pc = "done" =>
        \A e \in 1..Len(elements) :
            elements[e].type = "Heading" => elements[e].level \in 1..6

\* The levels of the styled headings of the source, as the style names give
\* them, and whether one of them carries a literal number.
StyledLevels(children) ==
    {DetectHeadingFromParagraphStyle(StyledHeadings(children)[i])[1] :
        i \in 1..Len(StyledHeadings(children))}
HasLiteralNumber(children) ==
    \E i \in 1..Len(StyledHeadings(children)) :
        ExtractHeadingNumberFromText(
            ExtractParagraphText(StyledHeadings(children)[i])) # None

\* C7: auto-numbering stays off if a styled heading carries a literal number,
\* or there are fewer than 3 styled headings, or all styled headings share one
\* level; otherwise it is on for the whole load.
C7_AutoNumberingDecision ==
    pc \in {"first_pass", "splice", "group", "clean", "merge", "done"} =>
        heading_tracker.auto_numbering_enabled =
            ~(\/ HasLiteralNumber(src)
              \/ Len(StyledHeadings(src)) < 3
              \/ Cardinality(StyledLevels(src)) <= 1)

---------------------------------------------------------------------------
(* TableData::new on small tables, ragged rows and missing headers         *)
(* included.                                                               *)

MaxTableRows == 2

HeaderPalette ==
    {<<>>,
     <<NewTableCell(S("Name"))>>,
     <<NewTableCell(S("Name")), NewTableCell(S("Qty"))>>}

RowPalette ==
    {<<NewTableCell(S("Ann"))>>,
     <<NewTableCell(S("Ann")), NewTableCell(S("12"))>>,
     <<NewTableCell(<<"a", "U+0307", "b", "c", "d">>), NewTableCell(S("$5"))>>,
     <<NewTableCell(S("longer")), NewTableCell(S("12")), NewTableCell(S("x"))>>}

InitTable ==
    /\ pc = "table"
    /\ arg \in [headers : HeaderPalette, rows : SeqsUpTo(RowPalette, MaxTableRows)]
    /\ ret = Null
    /\ counters = <<>>
    /\ IdleCalls /\ IdleLoad /\ IdleSearch

CallTableDataNew ==
    /\ pc = "table"
    /\ ret' = TableDataNew(arg.headers, arg.rows)
    /\ pc' = "table_done"
    /\ UNCHANGED <<arg, counters, loadVars, callVars, searchVars>>

NextTable == CallTableDataNew

SpecTable == InitTable /\ [][NextTable]_vars

\* The length of the longest row of a table.
LongestRow(rows) ==
    IF rows = <<>> THEN 0
    ELSE CHOOSE n \in {Len(rows[r]) : r \in 1..Len(rows)} :
             \A r \in 1..Len(rows) : Len(rows[r]) <= n

\* The cells of one column: the header cell and every row cell present.
ColumnCells(table, col) ==
    (IF col <= Len(table.headers) THEN {table.headers[col]} ELSE {})
        \cup {table.rows[r][col] :
                 r \in {r \in 1..Len(table.rows) : col <= Len(table.rows[r])}}

\* C11: a table built by TableData::new has as many column widths as column
\* alignments, namely the larger of the header count and the longest row;
\* every width is at least 3 and at least the display width of every cell
\* of its column.
C11_TableMetadataInvariant ==
    pc = "table_done" =>
        LET columns == Max(Len(ret.headers), LongestRow(ret.rows))
        IN  /\ Len(ret.metadata.column_widths) = columns
            /\ Len(ret.metadata.column_alignments) = columns
            /\ \A col \in 1..Len(ret.metadata.column_widths) :
                   /\ ret.metadata.column_widths[col] >= 3
                   /\ \A cell \in ColumnCells(ret, col) :
                          ret.metadata.column_widths[col] >= DisplayWidth(cell)

---------------------------------------------------------------------------
(* determine_column_alignments on one column of up to MaxColumnCells data  *)
(* rows: numeric cells, text cells, and rows that lack the column.         *)

MaxColumnCells == 10

NumericCellPalette ==
    {NewTableCell(S("12")), NewTableCell(S("$5")), NewTableCell(S("50%"))}

ColumnHeaderPalette == {<<NewTableCell(S("Qty"))>>, <<NewTableCell(S("7"))>>}

\* The data rows of a column with the given numbers of numeric cells, text
\* cells and rows lacking the column, numeric cells first or last.
ColumnRows(numeric_cell, numeric, text, absent, numeric_first) ==
    LET n == Repeat(<<<<numeric_cell>>>>, numeric)
        x == Repeat(<<<<NewTableCell(S("ok"))>>>>, text)
        a == Repeat(<<<<>>>>, absent)
    IN  IF numeric_first THEN n \o a \o x ELSE x \o a \o n

InitColumn ==
    /\ pc = "column"
    /\ \E numeric_cell \in NumericCellPalette, numeric_first \in BOOLEAN,
          numeric \in 0..MaxColumnCells, text \in 0..MaxColumnCells,
          absent \in 0..MaxColumnCells, headers \in ColumnHeaderPalette :
           /\ numeric + text + absent <= MaxColumnCells
           /\ arg = [headers |-> headers,
                     rows |-> ColumnRows(numeric_cell, numeric, text, absent,
                                         numeric_first)]
    /\ ret = Null
    /\ counters = <<>>
    /\ IdleCalls /\ IdleLoad /\ IdleSearch

CallDetermineColumnAlignments ==
    /\ pc = "column"
    /\ ret' = DetermineColumnAlignments(arg.headers, arg.rows)
    /\ pc' = "column_done"
    /\ UNCHANGED <<arg, counters, loadVars, callVars, searchVars>>

NextColumn == CallDetermineColumnAlignments

SpecColumn == InitColumn /\ [][NextColumn]_vars

\* The data-row cells present in a column, by row index.
PresentCells(rows, col) == {r \in 1..Len(rows) : col <= Len(rows[r])}
NumericCells(rows, col) ==
    {r \in PresentCells(rows, col) :
        rows[r][col].data_type \in {"Number", "Currency", "Percentage"}}

\* C12: a column is right-aligned exactly when strictly more than 70% of
\* the data-row cells present in it are Number, Currency or Percentage;
\* at exactly 70%, below it, or without data cells it is left-aligned, and
\* the header cell is not counted.
C12_AlignmentThreshold ==
    pc = "column_done" =>
        \A col \in 1..Len(arg.headers) :
            /\ ret[col] \in {"Left", "Right"}
            /\ ret[col] = "Right" <=>
                   10 * Cardinality(NumericCells(arg.rows, col))
                       > 7 * Cardinality(PresentCells(arg.rows, col))

C12_Witness ==
    /\ pc = "column_done"
    /\ Cardinality(PresentCells(arg.rows, 1)) = 10
    /\ Cardinality(NumericCells(arg.rows, 1)) = 7
    /\ arg.headers[1].data_type = "Number"
    /\ ret = <<"Left">>

\* C13: load_document fails only for package-level failures; no content of
\* an equation makes the raw-XML equation scans or the OMML-to-LaTeX
\* conversion abort the load, neither with an error nor with a panic.
C13_EquationFailuresNeverAbort == pc # "panicked"

---------------------------------------------------------------------------
(* cleanup.rs: estimate_page_count, and the metadata of load_document.     *)

WordsPerPage == 250
MaxWords == 502

RECURSIVE Pow2(_)
Pow2(n) == IF n = 0 THEN 1 ELSE 2 * Pow2(n - 1)

\* The number of binary digits of a natural number.
RECURSIVE BitLen(_)
BitLen(n) == IF n = 0 THEN 0 ELSE 1 + BitLen(n \div 2)

\* For 0 < x < d: the position after the point of the first binary digit
\* of x / d that is 1.
RECURSIVE FirstFractionBit(_, _)
FirstFractionBit(x, d) == IF 2 * x >= d THEN 1 ELSE 1 + FirstFractionBit(2 * x, d)

\* Binary long division: acc extended by the next s binary digits of x / d
\* after the point, with the remainder.
RECURSIVE QuotientBits(_, _, _, _)
QuotientBits(acc, x, d, s) ==
    IF s = 0 THEN [m |-> acc, rem |-> x]
    ELSE QuotientBits(2 * acc + (2 * x) \div d, (2 * x) % d, d, s - 1)

\* The single-precision quotient n / d of two integers below 2^24, as a
\* significand of 24 binary digits m and a scale s: the quotient is m / 2^s,
\* rounded to nearest, ties to even.
F32Quotient(n, d) ==
    LET s == IF n >= d THEN 24 - BitLen(n \div d)
             ELSE FirstFractionBit(n % d, d) + 23
        floor == QuotientBits(n \div d, n % d, d, s)
    IN  [m |-> IF 2 * floor.rem > d \/ (2 * floor.rem = d /\ floor.m % 2 = 1)
               THEN floor.m + 1 ELSE floor.m,
         s |-> s]

\* f32::ceil() as usize
F32Ceil(x) ==
    IF x.s >= 24 THEN (IF x.m = 0 THEN 0 ELSE 1)
    ELSE (x.m + Pow2(x.s) - 1) \div Pow2(x.s)

\* The integers from 0 to F32ExactLimit are single-precision values; a
\* larger one is rounded when it is cast.
F32ExactLimit == 16777216

\* usize as f32, for n below 2^31 - 64: the value m * 2^e nearest to n
\* with m of at most 24 binary digits, ties to even.
F32FromInt(n) ==
    IF n <= F32ExactLimit THEN [m |-> n, e |-> 0]
    ELSE LET e == BitLen(n) - 24
             floor == n \div Pow2(e)
             rem == n % Pow2(e)
         IN  [m |-> IF 2 * rem > Pow2(e) \/ (2 * rem = Pow2(e) /\ floor % 2 = 1)
                    THEN floor + 1 ELSE floor,
              e |-> e]

\* A plausible slip: the quotient is truncated instead of rounded up.
EstimatePageCountTruncated(words) == words \div WordsPerPage

\* The quotient x / d in single precision, for x = m * 2^e: the division
\* is correctly rounded, and a power of two only moves the scale.
F32Divide(x, d) ==
    [m |-> F32Quotient(x.m, d).m, s |-> F32Quotient(x.m, d).s - x.e]

\* cleanup.rs: estimate_page_count: (word_count as f32 / 250.0).ceil()
EstimatePageCount(words) ==
    IF words = 0 THEN 0
    ELSE F32Ceil(F32Divide(F32FromInt(words), WordsPerPage))

\* load_document, lines 344-352: the counts of DocumentMetadata.
Metadata ==
    [word_count |-> word_count, page_count |-> EstimatePageCount(word_count)]

\* Word counts around the limit of exact single-precision integers and
\* beyond it.
LargeWordCounts ==
    {F32ExactLimit - 250, F32ExactLimit - 217, F32ExactLimit - 216,
     F32ExactLimit - 1, F32ExactLimit, F32ExactLimit + 1, F32ExactLimit + 35,
     F32ExactLimit + 285, F32ExactLimit + 2784, 2 * F32ExactLimit + 70,
     100 * F32ExactLimit + 1}

InitPageCount ==
    /\ pc = "pages"
    /\ arg \in (0..MaxWords) \cup LargeWordCounts
    /\ ret = Null
    /\ counters = <<>>
    /\ IdleCalls /\ IdleLoad /\ IdleSearch

CallEstimatePageCount ==
    /\ pc = "pages"
    /\ ret' = EstimatePageCount(arg)
    /\ pc' = "pages_done"
    /\ UNCHANGED <<arg, counters, loadVars, callVars, searchVars>>

\* load_document on bounded documents, and estimate_page_count on word
\* counts up to MaxWords.
SpecMetadata ==
    (InitLoad \/ InitPageCount) /\ [][NextLoad \/ CallEstimatePageCount]_vars

RECURSIVE Sum(_)
Sum(ns) == IF ns = <<>> THEN 0 ELSE Head(ns) + Sum(Tail(ns))

\* The whitespace-split tokens of the paragraph, heading and list text of
\* the elements of a document.
ElementWords(elems) ==
    Sum([e \in 1..Len(elems) |->
        CASE elems[e].type = "Paragraph" -> WordCount(RunsText(elems[e].runs))
          [] elems[e].type = "Heading" -> WordCount(elems[e].text)
          [] elems[e].type = "List" ->
                Sum([k \in 1..Len(elems[e].items) |->
                        WordCount(RunsText(elems[e].items[k].runs))])
          [] OTHER -> 0])

\* The whitespace-split tokens of the run text of the paragraphs of the
\* document body.
SourceWords(children) ==
    Sum([i \in 1..Len(children) |->
        IF children[i].kind = "p"
        THEN WordCount(Concat([r \in 1..Len(RunsOf(children[i])) |->
                                  RunsOf(children[i])[r].text]))
        ELSE 0])

\* C14 as stated: the word count of the metadata is the number of
\* whitespace-split tokens of the paragraph, heading and list text of the
\* elements of the returned document.
C14_Original ==
    pc = "done" => Metadata.word_count = ElementWords(elements)

\* C14: the word count of the metadata is the number of whitespace-split
\* tokens of the run text of the paragraphs of the source body, whatever
\* the elements made of them hold; for a word count of at most 2^24 the
\* page count is the word count divided by 250 and rounded up (0 for 0
\* words, 1 for 1..250, 2 for 251); for a larger one, which the cast to
\* single precision rounds, it differs from that by at most 1 (word counts
\* below 2^31).
C14_WordAndPageCount ==
    /\ pc = "done" =>
           /\ Metadata.word_count = SourceWords(src)
           /\ Metadata.word_count <= F32ExactLimit
           /\ Metadata.page_count = (Metadata.word_count + 249) \div 250
    /\ pc = "pages_done" =>
           IF arg <= F32ExactLimit THEN ret = (arg + 249) \div 250
           ELSE ret \in ((arg + 249) \div 250 - 1)..((arg + 249) \div 250 + 1)

C14_Witness ==
    /\ pc = "done"
    /\ Metadata.word_count = 5
    /\ Metadata.page_count = 1
    /\ ElementWords(elements) > 5

C14_PagesWitness ==
    pc = "pages_done" /\ arg = 251 /\ ret = 2

\* 16777501 words are cast to 16777500.0: 67110 pages, one less than the
\* rounded-up quotient.
C14_LargeWitness ==
    /\ pc = "pages_done" /\ arg = F32ExactLimit + 285
    /\ ret = 67110 /\ (arg + 249) \div 250 = 67111

---------------------------------------------------------------------------
(* load_document on documents made of automatic list items, typed bullets  *)
(* and text in which the marker string occurs.                             *)

MarkerPalette ==
    {TextParagraph(None, Some(NumPr(Some(1), Some(0))), "one"),
     TextParagraph(None, Some(NumPr(None, Some(1))), "dot"),
     TextParagraph(None, None, "- item"),
     TextParagraph(None, None, "See text."),
     TextParagraph(None, None, "__WORD_LIST__x"),
     TextParagraph(None, None, "__WORD_LIST____WORD_LIST__x")}

InitMarker ==
    /\ pc = "analyze"
    /\ src \in SeqsUpTo(MarkerPalette, MaxChildren)
    /\ child_i = 0
    /\ elements = <<>>
    /\ word_count = 0
    /\ counters = <<>>
    /\ heading_tracker = NewHeadingNumberTracker
    /\ inline_paragraphs = <<>>
    /\ display_equations_by_para = <<>>
    /\ IdleCalls /\ IdlePure /\ IdleSearch

SpecMarker == InitMarker /\ [][NextLoad]_vars

\* The runs of the paragraphs and list items of a document.
TextRuns(elems) ==
    UNION {CASE elems[e].type = "Paragraph" ->
                   {elems[e].runs[r] : r \in 1..Len(elems[e].runs)}
             [] elems[e].type = "List" ->
                   UNION {{elems[e].items[k].runs[r] :
                              r \in 1..Len(elems[e].items[k].runs)} :
                          k \in 1..Len(elems[e].items)}
             [] OTHER -> {} : e \in 1..Len(elems)}

\* The positions of the paragraphs that carry the marker.
MarkerParagraphs(elems) ==
    {e \in 1..Len(elems) :
        /\ elems[e].type = "Paragraph"
        /\ StartsWith(RunsText(elems[e].runs), WordListMarker)}

\* One run before and after cleanup: the same but for a leading marker.
MarkerRemoved(before, after) ==
    /\ after.formatting = before.formatting
    /\ IF StartsWith(before.text, WordListMarker)
       THEN before.text = WordListMarker \o after.text
       ELSE after.text = before.text

\* C15: in the returned document no run of a paragraph or of a list item
\* begins with the internal list marker; a paragraph that carries the marker
\* is kept as a paragraph by the grouping of list items, and the cleanup
\* removes the marker and changes nothing else.
C15_MarkerCleanup ==
    /\ [](pc = "done" =>
            \A run \in TextRuns(elements) : ~StartsWith(run.text, WordListMarker))
    /\ [][pc = "group" =>
            \A e \in MarkerParagraphs(elements) :
                \E g \in 1..Len(elements') : elements'[g] = elements[e]]_vars
    /\ [][pc = "clean" =>
            /\ Len(elements') = Len(elements)
            /\ \A e \in MarkerParagraphs(elements) :
                  /\ elements'[e].type = "Paragraph"
                  /\ Len(elements'[e].runs) = Len(elements[e].runs)
                  /\ \A r \in 1..Len(elements[e].runs) :
                        MarkerRemoved(elements[e].runs[r], elements'[e].runs[r])]_vars

---------------------------------------------------------------------------
(* to_roman and the roman list formats on the numbers up to MaxRoman.      *)

MaxRoman == 3999

InitRoman ==
    /\ pc = "roman"
    /\ arg \in 1..MaxRoman
    /\ ret = Null
    /\ counters = <<>>
    /\ IdleCalls /\ IdleLoad /\ IdleSearch

CallFormatRoman ==
    /\ pc = "roman"
    /\ ret' = [roman |-> ToRoman(arg),
               lower |-> FormatNumber(arg, "LowerRoman"),
               paren |-> FormatNumber(arg, "ParenLowerRoman")]
    /\ pc' = "roman_done"
    /\ UNCHANGED <<arg, counters, loadVars, callVars, searchVars>>

SpecRoman == InitRoman /\ [][CallFormatRoman]_vars

\* The standard numeral of 1..3999, digit by digit: each decimal digit has
\* its own numeral in the letters of its place.
RomanDigit(d, one, five, ten) ==
    CASE d = 0 -> <<>>
      [] d = 1 -> <<one>>
      [] d = 2 -> <<one, one>>
      [] d = 3 -> <<one, one, one>>
      [] d = 4 -> <<one, five>>
      [] d = 5 -> <<five>>
      [] d = 6 -> <<five, one>>
      [] d = 7 -> <<five, one, one>>
      [] d = 8 -> <<five, one, one, one>>
      [] d = 9 -> <<one, ten>>

StandardRoman(n, m, d, c, l, x, v, i) ==
    RomanDigit(n \div 1000, m, m, m)
        \o RomanDigit((n \div 100) % 10, c, d, m)
        \o RomanDigit((n \div 10) % 10, x, l, c)
        \o RomanDigit(n % 10, i, v, x)

\* C16: for every n in 1..3999 to_roman gives the standard subtractive
\* numeral; the LowerRoman format is that numeral in lower case followed by
\* ". ", the ParenLowerRoman format is it between parentheses.
C16_RomanNumerals ==
    (pc = "roman_done" /\ arg \in 1..3999) =>
        /\ ret.roman = StandardRoman(arg, "M", "D", "C", "L", "X", "V", "I")
        /\ ret.lower = StandardRoman(arg, "m", "d", "c", "l", "x", "v", "i") \o S(". ")
        /\ ret.paren = S("(") \o StandardRoman(arg, "m", "d", "c", "l", "x", "v", "i")
                           \o S(")")

C16_Witness ==
    /\ pc = "roman_done"
    /\ arg = 3999
    /\ ret.roman = S("MMMCMXCIX")
    /\ ret.lower = S("mmmcmxcix. ")
    /\ ret.paren = S("(mmmcmxcix)")

---------------------------------------------------------------------------
(* equation.rs: rendering of a parsed OMML element to Unicode.             *)

TextElement(s) == [kind |-> "Text", text |-> s]
SequenceElement(items) == [kind |-> "Sequence", elements |-> items]
SuperscriptElement(base, sup) == [kind |-> "Superscript", base |-> base, sup |-> sup]
SubscriptElement(base, sub) == [kind |-> "Subscript", base |-> base, sub |-> sub]
FractionElement(num, den) == [kind |-> "Fraction", num |-> num, den |-> den]
NaryElement(operator, sub, sup, base) ==
    [kind |-> "Nary", operator |-> operator, sub |-> sub, sup |-> sup, base |-> base]
DelimiterElement(content) == [kind |-> "Delimiter", content |-> content]

SuperscriptChar(c) ==
    CASE c = "0" -> "U+2070"
      [] c = "1" -> "U+00B9"
      [] c = "2" -> "U+00B2"
      [] c = "3" -> "U+00B3"
      [] c = "4" -> "U+2074"
      [] c = "5" -> "U+2075"
      [] c = "6" -> "U+2076"
      [] c = "7" -> "U+2077"
      [] c = "8" -> "U+2078"
      [] c = "9" -> "U+2079"
      [] c = "+" -> "U+207A"
      [] c = "-" -> "U+207B"
      [] c = "=" -> "U+207C"
      [] c = "(" -> "U+207D"
      [] c = ")" -> "U+207E"
      [] c = "n" -> "U+207F"
      [] c = "i" -> "U+2071"
      [] OTHER -> c

\* A plausible slip: unmapped characters are dropped instead of kept.
ToSuperscriptDropping(text) ==
    SelectSeq([k \in 1..Len(text) |-> SuperscriptChar(text[k])],
              LAMBDA c : Len(c) > 1)

ToSuperscript(text) == [k \in 1..Len(text) |-> SuperscriptChar(text[k])]

SubscriptChar(c) ==
    CASE c = "0" -> "U+2080"
      [] c = "1" -> "U+2081"
      [] c = "2" -> "U+2082"
      [] c = "3" -> "U+2083"
      [] c = "4" -> "U+2084"
      [] c = "5" -> "U+2085"
      [] c = "6" -> "U+2086"
      [] c = "7" -> "U+2087"
      [] c = "8" -> "U+2088"
      [] c = "9" -> "U+2089"
      [] c = "+" -> "U+208A"
      [] c = "-" -> "U+208B"
      [] c = "=" -> "U+208C"
      [] c = "(" -> "U+208D"
      [] c = ")" -> "U+208E"
      [] c = "a" -> "U+2090"
      [] c = "e" -> "U+2091"
      [] c = "h" -> "U+2095"
      [] c = "i" -> "U+1D62"
      [] c = "j" -> "U+2C7C"
      [] c = "k" -> "U+2096"
      [] c = "l" -> "U+2097"
      [] c = "m" -> "U+2098"
      [] c = "n" -> "U+2099"
      [] c = "o" -> "U+2092"
      [] c = "p" -> "U+209A"
      [] c = "r" -> "U+1D63"
      [] c = "s" -> "U+209B"
      [] c = "t" -> "U+209C"
      [] c = "u" -> "U+1D64"
      [] c = "v" -> "U+1D65"
      [] c = "x" -> "U+2093"
      [] OTHER -> c

ToSubscript(text) == [k \in 1..Len(text) |-> SubscriptChar(text[k])]

FractionUnicode(num_str, den_str) ==
    CASE num_str = S("1") /\ den_str = S("2") -> <<"U+00BD">>
      [] num_str = S("1") /\ den_str = S("4") -> <<"U+00BC">>
      [] num_str = S("3") /\ den_str = S("4") -> <<"U+00BE">>
      [] num_str = S("1") /\ den_str = S("3") -> <<"U+2153">>
      [] num_str = S("2") /\ den_str = S("3") -> <<"U+2154">>
      [] num_str = S("1") /\ den_str = S("5") -> <<"U+2155">>
      [] num_str = S("1") /\ den_str = S("8") -> <<"U+215B">>
      [] OTHER -> S("(") \o num_str \o <<"U+2044">> \o den_str \o S(")")

RECURSIVE RenderToUnicode(_), RenderSequenceFrom(_, _)
RenderSequenceFrom(items, k) ==
    IF k > Len(items) THEN <<>>
    ELSE RenderToUnicode(items[k]) \o RenderSequenceFrom(items, k + 1)

RenderToUnicode(element) ==
    CASE element.kind = "Text" -> element.text
      [] element.kind = "Sequence" -> RenderSequenceFrom(element.elements, 1)
      [] element.kind = "Superscript" ->
            RenderToUnicode(element.base) \o ToSuperscript(RenderToUnicode(element.sup))
      [] element.kind = "Subscript" ->
            RenderToUnicode(element.base) \o ToSubscript(RenderToUnicode(element.sub))
      [] element.kind = "Fraction" ->
            FractionUnicode(RenderToUnicode(element.num), RenderToUnicode(element.den))
      [] element.kind = "Nary" ->
            element.operator
                \o (IF element.sub = None THEN <<>>
                    ELSE ToSubscript(RenderToUnicode(element.sub[1])))
                \o (IF element.sup = None THEN <<>>
                    ELSE ToSuperscript(RenderToUnicode(element.sup[1])))
                \o RenderToUnicode(element.base)
      [] element.kind = "Delimiter" ->
            S("(") \o RenderToUnicode(element.content) \o S(")")

---------------------------------------------------------------------------
(* The script maps on short texts, render_to_unicode on small elements.    *)

MaxScriptLen == 2

\* The tables of the claim, as parallel lists of characters and glyphs.
SuperscriptFrom == S("0123456789+-=()ni")
SuperscriptTo ==
    <<"U+2070", "U+00B9", "U+00B2", "U+00B3", "U+2074", "U+2075", "U+2076",
      "U+2077", "U+2078", "U+2079", "U+207A", "U+207B", "U+207C", "U+207D",
      "U+207E", "U+207F", "U+2071">>
SubscriptFrom == S("0123456789+-=()aehijklmnoprstuvx")
SubscriptTo ==
    <<"U+2080", "U+2081", "U+2082", "U+2083", "U+2084", "U+2085", "U+2086",
      "U+2087", "U+2088", "U+2089", "U+208A", "U+208B", "U+208C", "U+208D",
      "U+208E", "U+2090", "U+2091", "U+2095", "U+1D62", "U+2C7C", "U+2096",
      "U+2097", "U+2098", "U+2099", "U+2092", "U+209A", "U+1D63", "U+209B",
      "U+209C", "U+1D64", "U+1D65", "U+2093">>

ScriptChars ==
    {SubscriptFrom[k] : k \in 1..Len(SubscriptFrom)} \cup {"z", "A", " ", "U+00E9", "U+00B2"}

ScriptTails == {<<>>, S("0"), S("n-k"), S("z=i")}

PartPalette ==
    {TextElement(S("1")), TextElement(S("2")), TextElement(S("3")),
     TextElement(S("4")), TextElement(S("5")), TextElement(S("8")),
     TextElement(<<>>), TextElement(S("12")), TextElement(S("x")),
     SequenceElement(<<TextElement(S("1"))>>),
     SequenceElement(<<TextElement(S("1")), TextElement(S("2"))>>),
     SequenceElement(<<TextElement(<<>>), TextElement(S("3")), TextElement(<<>>)>>),
     DelimiterElement(TextElement(S("1"))),
     SuperscriptElement(TextElement(S("x")), TextElement(S("2n"))),
     SubscriptElement(TextElement(S("a")), TextElement(S("i+1"))),
     FractionElement(TextElement(S("1")), TextElement(S("2"))),
     NaryElement(<<"U+2211">>, Some(TextElement(S("k=1"))), Some(TextElement(S("n"))),
                 TextElement(S("k"))),
     NaryElement(<<"U+222B">>, None, None, TextElement(S("x")))}

InitScript ==
    /\ pc = "script"
    /\ arg \in [a : SeqsUpTo(ScriptChars, MaxScriptLen), b : ScriptTails]
    /\ ret = Null
    /\ counters = <<>>
    /\ IdleCalls /\ IdleLoad /\ IdleSearch

CallToScript ==
    /\ pc = "script"
    /\ ret' = [sup_a |-> ToSuperscript(arg.a), sup_b |-> ToSuperscript(arg.b),
               sup_ab |-> ToSuperscript(arg.a \o arg.b),
               sub_a |-> ToSubscript(arg.a), sub_b |-> ToSubscript(arg.b),
               sub_ab |-> ToSubscript(arg.a \o arg.b)]
    /\ pc' = "script_done"
    /\ UNCHANGED <<arg, counters, loadVars, callVars, searchVars>>

InitFraction ==
    /\ pc = "unicode"
    /\ arg \in {FractionElement(num, den) : num \in PartPalette, den \in PartPalette}
    /\ ret = Null
    /\ counters = <<>>
    /\ IdleCalls /\ IdleLoad /\ IdleSearch

CallRenderToUnicode ==
    /\ pc = "unicode"
    /\ ret' = [num |-> RenderToUnicode(arg.num), den |-> RenderToUnicode(arg.den),
               unicode |-> RenderToUnicode(arg)]
    /\ pc' = "unicode_done"
    /\ UNCHANGED <<arg, counters, loadVars, callVars, searchVars>>

NextUnicode == CallToScript \/ CallRenderToUnicode

SpecUnicode == (InitScript \/ InitFraction) /\ [][NextUnicode]_vars

\* out is text mapped character by character through the table from/to.
MappedBy(text, out, from, to) ==
    /\ Len(out) = Len(text)
    /\ \A k \in 1..Len(text) :
          IF \E j \in 1..Len(from) : from[j] = text[k]
          THEN \E j \in 1..Len(from) : from[j] = text[k] /\ out[k] = to[j]
          ELSE out[k] = text[k]

FractionGlyphs ==
    {<<"1", "2", "U+00BD">>, <<"1", "4", "U+00BC">>, <<"3", "4", "U+00BE">>,
     <<"1", "3", "U+2153">>, <<"2", "3", "U+2154">>, <<"1", "5", "U+2155">>,
     <<"1", "8", "U+215B">>}

\* C17: a fraction whose parts render to one of the seven listed pairs
\* renders to the one pre-composed glyph, every other fraction to
\* '(' num fraction-slash den ')'; to_superscript and to_subscript map every
\* character on its own through their table, keep the others, preserve the
\* number of characters and distribute over concatenation.
C17_UnicodeRendering ==
    /\ pc = "unicode_done" =>
          IF \E g \in FractionGlyphs : ret.num = <<g[1]>> /\ ret.den = <<g[2]>>
          THEN \E g \in FractionGlyphs :
                  ret.num = <<g[1]>> /\ ret.den = <<g[2]>> /\ ret.unicode = <<g[3]>>
          ELSE ret.unicode = S("(") \o ret.num \o <<"U+2044">> \o ret.den \o S(")")
    /\ pc = "script_done" =>
          /\ MappedBy(arg.a, ret.sup_a, SuperscriptFrom, SuperscriptTo)
          /\ MappedBy(arg.a, ret.sub_a, SubscriptFrom, SubscriptTo)
          /\ ret.sup_ab = ret.sup_a \o ret.sup_b
          /\ ret.sub_ab = ret.sub_a \o ret.sub_b
          /\ Len(ret.sup_ab) = Len(arg.a) + Len(arg.b)
          /\ Len(ret.sub_ab) = Len(arg.a) + Len(arg.b)

C17_Witness ==
    /\ pc = "script_done"
    /\ arg.a = S("1z") /\ arg.b = S("0")
    /\ ret.sup_ab = <<"U+00B9", "z", "U+2070">>
    /\ ret.sub_ab = <<"U+2081", "z", "U+2080">>

C17_FractionWitness ==
    /\ pc = "unicode_done"
    /\ arg = FractionElement(SequenceElement(<<TextElement(S("1"))>>), TextElement(S("2")))
    /\ ret.unicode = <<"U+00BD">>

---------------------------------------------------------------------------
(* The equation passes of load_document against the source paragraphs.     *)

\* The index the splice loop has when it reaches elements[e] (line 265).
ParaIndexAt(e) == Cardinality({j \in 1..e : elements[j].type = "Paragraph"})

\* The 1-based position, among the w:p of the XML, of body paragraph o.
XmlIndexOf(o) ==
    CHOOSE k \in 1..Len(XmlParagraphs(src)) : XmlParagraphs(src)[k].origin = o

HasInlineEquation(para) ==
    \E i \in 1..Len(para.children) :
        para.children[i].kind = "oMath" /\ ~para.children[i].empty_tag

StartsWithDollar(run) == run.text # <<>> /\ Head(run.text) = "$"

\* C18: when the splice loop runs, the index it uses for a Paragraph element
\* is the 1-based position of the element's source w:p in the XML; after it,
\* a Paragraph whose source has inline equations holds that paragraph's own
\* content with the equations spliced in, and no other Paragraph holds an
\* equation run.
C18_ParagraphIndexConsistency ==
    /\ pc = "splice" =>
          \A e \in 1..Len(elements) :
              elements[e].type = "Paragraph" =>
                  ParaIndexAt(e) = XmlIndexOf(elements[e].origin)
    /\ pc = "group" =>
          \A e \in 1..Len(elements) :
              elements[e].type = "Paragraph" =>
                  IF HasInlineEquation(src[elements[e].origin])
                  THEN elements[e].runs =
                          RebuildRuns(ParagraphContentOf(src[elements[e].origin]),
                                      <<>>, <<>>)
                  ELSE \A r \in 1..Len(elements[e].runs) :
                          ~StartsWithDollar(elements[e].runs[r])

\* The whole source paragraph is a display equation: m:oMathPara children
\* only, and at least one.
IsDisplayEquationParagraph(para) ==
    /\ para.children # <<>>
    /\ \A i \in 1..Len(para.children) : para.children[i].kind = "oMathPara"

\* C19: the splice pass drops a Paragraph element only if its whole source
\* paragraph is a display equation; every other Paragraph element is still
\* a Paragraph of Document.elements after the pass.
C19_DisplayReplacement ==
    [][pc = "splice" =>
          \A e \in 1..Len(elements) :
              elements[e].type = "Paragraph" =>
                  \/ IsDisplayEquationParagraph(src[elements[e].origin])
                  \/ \E f \in 1..Len(elements') :
                        /\ elements'[f].type = "Paragraph"
                        /\ elements'[f].origin = elements[e].origin]_vars

\* The display equations the scan reports for body child o, in source order.
ReportedDisplayEquations(o) ==
    Concat([k \in 1..Len(XmlParagraphs(src)) |->
        IF XmlParagraphs(src)[k].origin = o
        THEN DisplayEquationsOf(XmlParagraphs(src)[k].para, o)
        ELSE <<>>])

IsEquationOf(element, o) == element.type = "Equation" /\ element.origin = o

\* C20: in the returned Document the Equation elements that come from one
\* source paragraph are exactly the display equations the scan reported for
\* it, each once and in source order.
C20_DisplayEquationsOnce ==
    pc = "done" =>
        \A o \in 1..Len(src) :
            SelectSeq(elements, LAMBDA element : IsEquationOf(element, o))
                = ReportedDisplayEquations(o)

---------------------------------------------------------------------------
(* load_document on documents made of styled headings, with and without   *)
(* a literal number and a numbering property, and plain text.              *)

HeadingPalette ==
    {TextParagraph(Some(S("Heading1")), None, "Intro"),
     TextParagraph(Some(S("Heading2")), None, "Scope"),
     TextParagraph(Some(S("Heading3")), None, "Detail"),
     TextParagraph(Some(S("Heading2")), None, "1.1 Deep"),
     TextParagraph(Some(S("Heading1")), Some(NumPr(Some(2), Some(0))), "Auto"),
     TextParagraph(Some(S("Heading2")), Some(NumPr(None, Some(1))), "NoId"),
     TextParagraph(Some(S("Heading1")), Some(NumPr(Some(2), Some(256))), "Wrap"),
     TextParagraph(None, None, "See text.")}

InitHeadings ==
    /\ pc = "analyze"
    /\ src \in SeqsUpTo(HeadingPalette, MaxChildren)
    /\ child_i = 0
    /\ elements = <<>>
    /\ word_count = 0
    /\ counters = <<>>
    /\ heading_tracker = NewHeadingNumberTracker
    /\ inline_paragraphs = <<>>
    /\ display_equations_by_para = <<>>
    /\ IdleCalls /\ IdlePure /\ IdleSearch

SpecHeadings == InitHeadings /\ [][NextLoad]_vars

ReconstructedNumbers == {S("1"), S("1.1"), S("1.1.1"), S("1.1.1.1")}

\* The Heading the claim expects for styled paragraph para, pushed last.
IsExpectedHeading(h, para, tracker) ==
    LET text == ExtractParagraphText(para)
        manual == ExtractHeadingNumberFromText(text)
    IN  /\ h.type = "Heading"
        /\ IF manual # None
           THEN h.number = Some(manual[1].number) /\ h.text = manual[1].text
           ELSE IF para.numPr # None /\ para.numPr[1].id # None
           THEN /\ h.number # None
                /\ h.number[1] \in ReconstructedNumbers
                /\ h.text = text
           ELSE IF tracker.auto_numbering_enabled
           THEN h.number = Some(GetNumber(tracker, h.level).text)
           ELSE h.number = None

\* C21: the first pass turns every non-empty paragraph with a heading style
\* into one Heading element: with the literal number of its text and the
\* remaining text if there is one, else with the reconstructed number and
\* its own text if it has a numbering property with an id, else with the
\* tracker's number when auto-numbering is enabled and no number otherwise.
C21_HeadingPriority ==
    [][(/\ pc = "first_pass"
        /\ child_i < Len(src)
        /\ DetectHeadingFromParagraphStyle(src[child_i + 1]) # None
        /\ ExtractParagraphText(src[child_i + 1]) # <<>>)
       => /\ Len(elements') = Len(elements) + 1
          /\ IsExpectedHeading(elements'[Len(elements')], src[child_i + 1],
                               heading_tracker)]_vars

---------------------------------------------------------------------------
(* The effect of one generate_number call on the counter map.              *)

LastCall == calls'[Len(calls')]

DeeperKeys(num_id, level) == {key \in NumIds \X Levels : key[1] = num_id /\ key[2] > level}

\* C22: generate_number(id, L, format) adds one to the counter of (id, L),
\* creating it at 1, removes the counters of id at levels deeper than L and
\* changes nothing else; the next call for a deeper level of id gives 1.
C22_GenerateNumberFrame ==
    [][(pc = "numbering" /\ Len(calls') = Len(calls) + 1) =>
          LET key == <<LastCall.num_id, LastCall.level>>
              deeper == DeeperKeys(LastCall.num_id, LastCall.level)
          IN  /\ DOMAIN counters' = (DOMAIN counters \cup {key}) \ deeper
              /\ counters'[key] = IF key \in DOMAIN counters THEN counters[key] + 1 ELSE 1
              /\ \A k \in DOMAIN counters' \ {key} : counters'[k] = counters[k]
              /\ \A k \in deeper :
                    GenerateNumber(counters', k[1], k[2],
                                   GetNumberingFormat(k[1], k[2])).counter = 1]_vars

\* A call at level 0 of num_id 1 after calls at its levels 1 and 2 and a call
\* for num_id 4: the deeper counters are gone, the other id's counter stays.
C22_Witness ==
    /\ pc = "numbering"
    /\ Len(calls) = 4
    /\ calls[4].num_id = 1 /\ calls[4].level = 0
    /\ {calls[1].level, calls[2].level, calls[3].level} = {1, 2}
    /\ \E i \in 1..3 : calls[i].num_id = 4
    /\ \E i, j \in 1..3 : calls[i].num_id = 1 /\ calls[j].num_id = 1
                            /\ calls[i].level = 1 /\ calls[j].level = 2 /\ i < j
    /\ DOMAIN counters = {<<1, 0>>} \cup {<<4, calls[i].level>> : i \in {i \in 1..3 : calls[i].num_id = 4}}

---------------------------------------------------------------------------
(* HeadingNumberTracker as an object: new(), enable_auto_numbering and a   *)
(* sequence of get_number calls.                                           *)

MaxTrackerCalls == 4

\* Levels as a u8 can hold them: 0, the six heading levels, and one above.
TrackerLevels == 0..7

InitTracker ==
    /\ pc = "tracker"
    /\ heading_tracker = NewHeadingNumberTracker
    /\ src = <<>>
    /\ child_i = 0
    /\ elements = <<>>
    /\ word_count = 0
    /\ counters = <<>>
    /\ inline_paragraphs = <<>>
    /\ display_equations_by_para = <<>>
    /\ IdleCalls /\ IdlePure /\ IdleSearch

\* numbering.rs: HeadingNumberTracker::enable_auto_numbering
EnableAutoNumbering ==
    /\ pc \in {"tracker", "outline"}
    /\ ~heading_tracker.auto_numbering_enabled
    /\ heading_tracker' = [heading_tracker EXCEPT !.auto_numbering_enabled = TRUE]
    /\ UNCHANGED <<pc, src, child_i, elements, word_count, counters, inline_paragraphs,
                   display_equations_by_para, callVars, pureVars, searchVars>>

\* One get_number call, recorded with the tracker before and after it.
GetNumberCall(level) ==
    LET r == GetNumber(heading_tracker, level)
    IN  /\ heading_tracker' = r.tracker
        /\ calls' = Append(calls, [level |-> level, text |-> r.text,
                                   before |-> heading_tracker, after |-> r.tracker])
        /\ UNCHANGED <<pc, src, child_i, elements, word_count, counters,
                       inline_paragraphs, display_equations_by_para,
                       pureVars, searchVars>>

CallGetNumber ==
    /\ pc = "tracker"
    /\ Len(calls) < MaxTrackerCalls
    /\ \E level \in TrackerLevels : GetNumberCall(level)

SpecTracker ==
    (InitTracker \/ InitHeadings)
        /\ [][EnableAutoNumbering \/ CallGetNumber \/ NextLoad]_vars

\* The slot a level addresses: 0 counts as 1, more than 6 as 6.
SlotOf(level) == IF level = 0 THEN 1 ELSE IF level > 6 THEN 6 ELSE level

\* The decimal components of a dotted number.
Components(text) == IF text = <<>> THEN <<>> ELSE SplitOn(text, {"."})

NonZeroSlots(cs, n) == SelectSeq([i \in 1..n |-> cs[i]], LAMBDA c : c > 0)

\* C23: a get_number call on an enabled tracker adds one to the slot of its
\* level (0 counts as 1, more than 6 as 6), zeroes the deeper slots, keeps
\* the shallower ones and returns the non-zero slots up to the level joined
\* with '.'.
C23_GetNumber ==
    pc = "tracker" =>
        \A j \in 1..Len(calls) :
            calls[j].before.auto_numbering_enabled =>
                LET slot == SlotOf(calls[j].level)
                    old == calls[j].before.counters
                    new == calls[j].after.counters
                    parts == NonZeroSlots(new, slot)
                IN  /\ new[slot] = old[slot] + 1
                    /\ \A i \in 1..6 : i > slot => new[i] = 0
                    /\ \A i \in 1..6 : i < slot => new[i] = old[i]
                    /\ Components(calls[j].text) =
                          [k \in 1..Len(parts) |-> DecimalString(parts[k])]
                    /\ calls[j].after.auto_numbering_enabled

\* The calls 1, 2, 2, 1 on a tracker enabled before them.
C23_Witness ==
    /\ pc = "tracker"
    /\ Len(calls) = 4
    /\ calls[1].before.auto_numbering_enabled
    /\ [j \in 1..4 |-> calls[j].level] = <<1, 2, 2, 1>>
    /\ [j \in 1..4 |-> calls[j].text] = <<S("1"), S("1.1"), S("1.2"), S("2")>>

\* Levels 0 and 7 address slots 1 and 6.
C23_ClampWitness ==
    /\ pc = "tracker"
    /\ Len(calls) = 3
    /\ calls[1].before.auto_numbering_enabled
    /\ [j \in 1..3 |-> calls[j].level] = <<0, 7, 0>>
    /\ [j \in 1..3 |-> calls[j].text] = <<S("1"), S("1.1"), S("2")>>

LoadPcs == {"analyze", "first_pass", "splice", "group", "clean", "merge", "done", "panicked"}

HasNoLiteralNumber(para) ==
    ExtractHeadingNumberFromText(ExtractParagraphText(para)) = None

\* C24: a tracker that was never enabled returns the empty string from every
\* get_number call and keeps its six counters at zero; a load with such a
\* tracker gives every heading without a literal number no number; an
\* enabled tracker stays enabled.
C24_DisabledTracker ==
    /\ [](~(pc = "tracker" /\ ~heading_tracker.auto_numbering_enabled)
          \/ (/\ heading_tracker.counters = <<0, 0, 0, 0, 0, 0>>
              /\ \A j \in 1..Len(calls) :
                    calls[j].text = <<>> /\ calls[j].after = calls[j].before))
    /\ [](~(pc \in LoadPcs /\ ~heading_tracker.auto_numbering_enabled)
          \/ (/\ heading_tracker.counters = <<0, 0, 0, 0, 0, 0>>
              /\ \A e \in 1..Len(elements) :
                    (elements[e].type = "Heading"
                        /\ HasNoLiteralNumber(src[elements[e].origin]))
                    => elements[e].number = None))
    /\ [][heading_tracker.auto_numbering_enabled
             => heading_tracker'.auto_numbering_enabled]_vars

\* Four calls, at levels 0, 1, 6 and 7, on a tracker that was never enabled.
C24_Witness ==
    /\ pc = "tracker"
    /\ ~heading_tracker.auto_numbering_enabled
    /\ [j \in 1..Len(calls) |-> calls[j].level] = <<0, 1, 6, 7>>
    /\ \A j \in 1..Len(calls) : calls[j].text = <<>>

\* A finished load of two styled headings: the tracker was not enabled and
\* both headings have no number.
C24_LoadWitness ==
    /\ pc = "done"
    /\ ~heading_tracker.auto_numbering_enabled
    /\ Len(elements) = 2
    /\ \A e \in 1..2 : elements[e].type = "Heading" /\ elements[e].number = None

---------------------------------------------------------------------------
(* The enabled tracker on sequences of heading levels 1 to 6.              *)

MaxOutlineCalls == 6

InitOutline ==
    /\ pc = "outline"
    /\ heading_tracker = NewHeadingNumberTracker
    /\ src = <<>>
    /\ child_i = 0
    /\ elements = <<>>
    /\ word_count = 0
    /\ counters = <<>>
    /\ inline_paragraphs = <<>>
    /\ display_equations_by_para = <<>>
    /\ IdleCalls /\ IdlePure /\ IdleSearch

CallGetNumberEnabled ==
    /\ pc = "outline"
    /\ heading_tracker.auto_numbering_enabled
    /\ Len(calls) < MaxOutlineCalls
    /\ \E level \in 1..6 : GetNumberCall(level)

SpecOutline == InitOutline /\ [][EnableAutoNumbering \/ CallGetNumberEnabled]_vars

\* The levels of the calls never skip downward: the first is 1, each later
\* one is at most one deeper than the call before it.
NeverSkipsDownward ==
    /\ calls # <<>> => calls[1].level = 1
    /\ \A j \in 2..Len(calls) : calls[j].level <= calls[j - 1].level + 1

\* C25: on an enabled tracker, in a sequence of get_number calls that never
\* skips a level downward, every number has exactly as many non-zero
\* components as its level and no two calls return the same number.
C25_UniqueNumbers ==
    (pc = "outline" /\ NeverSkipsDownward) =>
        /\ \A j \in 1..Len(calls) :
              /\ Len(Components(calls[j].text)) = calls[j].level
              /\ \A k \in 1..calls[j].level :
                    /\ Components(calls[j].text)[k] # <<>>
                    /\ Components(calls[j].text)[k] # S("0")
        /\ \A i, j \in 1..Len(calls) : i # j => calls[i].text # calls[j].text

\* The outline 1, 2, 2, 1, 2, 3 of the specification.
C25_Witness ==
    /\ pc = "outline"
    /\ [j \in 1..Len(calls) |-> calls[j].level] = <<1, 2, 2, 1, 2, 3>>
    /\ [j \in 1..Len(calls) |-> calls[j].text] =
          <<S("1"), S("1.1"), S("1.2"), S("2"), S("2.1"), S("2.1.1")>>

\* Level 6 is reached without skipping.
C25_DeepWitness ==
    /\ pc = "outline"
    /\ [j \in 1..Len(calls) |-> calls[j].level] = <<1, 2, 3, 4, 5, 6>>
    /\ calls[6].text = S("1.1.1.1.1.1")

---------------------------------------------------------------------------
(* generate_number with the format as an input of its own.                 *)

MaxHierarchyCalls == 4

HierarchyIds == {4, 5}
HierarchyLevels == {0, 1}
HierarchyFormats == {"Decimal", "LowerLetter", "ParenLowerRoman"}

InitHierarchy ==
    /\ pc = "hierarchy"
    /\ counters = <<>>
    /\ IdleCalls /\ IdleLoad /\ IdlePure /\ IdleSearch

CallGenerateNumberWithFormat ==
    /\ pc = "hierarchy"
    /\ Len(calls) < MaxHierarchyCalls
    /\ \E num_id \in HierarchyIds, level \in HierarchyLevels, format \in HierarchyFormats :
          LET r == GenerateNumber(counters, num_id, level, format)
          IN  /\ counters' = r.counters
              /\ calls' = Append(calls, [num_id |-> num_id, level |-> level,
                                         format |-> format,
                                         counter |-> r.counter, text |-> r.text])
    /\ UNCHANGED <<pc, loadVars, pureVars, searchVars>>

SpecHierarchy == InitHierarchy /\ [][CallGenerateNumberWithFormat]_vars

\* C26: generate_number(4, 1, _) returns the counter of (4, 0), a dot, the
\* new counter of (4, 1) and '. ', or the new counter and '. ' when (4, 0)
\* has no counter; every other pair is formatted from its own new counter in
\* the requested format.
C26_HierarchicalNumbering ==
    [][(pc = "hierarchy" /\ Len(calls') = Len(calls) + 1) =>
          LET key == <<LastCall.num_id, LastCall.level>>
              own == IF key \in DOMAIN counters THEN counters[key] + 1 ELSE 1
          IN  IF key = <<4, 1>>
              THEN IF <<4, 0>> \in DOMAIN counters
                   THEN LastCall.text
                            = DecimalString(counters[<<4, 0>>]) \o S(".")
                                \o DecimalString(own) \o S(". ")
                   ELSE LastCall.text = DecimalString(own) \o S(". ")
              ELSE LastCall.text = FormatNumber(own, LastCall.format)]_vars

Texts(cs) == [j \in 1..Len(cs) |-> cs[j].text]
Keys(cs) == [j \in 1..Len(cs) |-> <<cs[j].num_id, cs[j].level>>]

\* The calls (4,0), (4,1), (4,0), (4,1): the child restarts under the new
\* parent, whatever format is requested for it.
C26_Witness ==
    /\ pc = "hierarchy"
    /\ Keys(calls) = <<<<4, 0>>, <<4, 1>>, <<4, 0>>, <<4, 1>>>>
    /\ calls[1].format = "Decimal" /\ calls[3].format = "Decimal"
    /\ calls[2].format = "LowerLetter" /\ calls[4].format = "ParenLowerRoman"
    /\ Texts(calls) = <<S("1. "), S("1.1. "), S("2. "), S("2.1. ")>>

\* (4,1) without a counter of (4,0), and level 1 of another id.
C26_NoParentWitness ==
    /\ pc = "hierarchy"
    /\ Keys(calls) = <<<<4, 1>>, <<5, 0>>, <<5, 1>>>>
    /\ calls[3].format = "LowerLetter"
    /\ Texts(calls) = <<S("1. "), S("1. "), S("a. ")>>

---------------------------------------------------------------------------
(* group_list_items as an operation on its own: a sequence of elements,    *)
(* each tagged with its position, is grouped.                              *)

MaxGroupElems == 3

\* Paragraphs that are list items (bullet, numbered, lettered, indented,
\* prefix split over runs), a paragraph that is not, and a heading.
GroupPalette ==
    {Paragraph(<<FormattedRun(S("- a"), DefaultFormatting)>>, 0),
     Paragraph(<<FormattedRun(S("1. aaaaaaaaaaaaaaaaaaaaa"), DefaultFormatting)>>, 0),
     Paragraph(<<FormattedRun(S("b. xy"), DefaultFormatting)>>, 0),
     Paragraph(<<FormattedRun(S("  - in"), DefaultFormatting)>>, 0),
     Paragraph(<<FormattedRun(S("-"), Bold), FormattedRun(S(" it"), DefaultFormatting)>>, 0),
     Paragraph(<<FormattedRun(S("* b"), Bold), FormattedRun(S("c"), DefaultFormatting)>>, 0),
     Paragraph(<<FormattedRun(Repeat(S(" "), 512) \o S("- w"), DefaultFormatting)>>, 0),
     Paragraph(<<FormattedRun(S("See text."), DefaultFormatting)>>, 0),
     Heading(1, S("Intro"), None, 0)}

Tagged(elems) == [i \in 1..Len(elems) |-> [elems[i] EXCEPT !.origin = i]]

InitGroup ==
    /\ pc = "group_items"
    /\ arg \in {Tagged(elems) : elems \in SeqsUpTo(GroupPalette, MaxGroupElems)}
    /\ ret = Null
    /\ counters = <<>>
    /\ IdleCalls /\ IdleLoad /\ IdleSearch

CallGroupListItems ==
    /\ pc = "group_items"
    /\ ret' = GroupListItems(arg)
    /\ pc' = "group_items_done"
    /\ UNCHANGED <<arg, counters, loadVars, callVars, searchVars>>

SpecGroup == InitGroup /\ [][CallGroupListItems]_vars

\* The positions of the input an output element stands for, in order.
OriginSeq(element) ==
    IF element.type = "List"
    THEN [i \in 1..Len(element.items) |-> element.items[i].origin]
    ELSE <<element.origin>>

IsListParagraph(element) ==
    element.type = "Paragraph" /\ IsLikelyListItem(RunsText(element.runs))

\* The ordered flag of a list paragraph: its trimmed text starts with a digit.
OrderedFlag(element) ==
    LET text == Trim(RunsText(element.runs))
    IN  text # <<>> /\ text[1] \in Digits

\* C27: the output of group_list_items, with every List expanded into its
\* items, is the input in its order; the Lists hold exactly the list
\* paragraphs, each List is non-empty and holds paragraphs of one ordered
\* flag, which is the flag of the List; every other element is unchanged;
\* two adjacent Lists differ in their flag.
C27_ListGrouping ==
    pc = "group_items_done" =>
        /\ Concat([e \in 1..Len(ret) |-> OriginSeq(ret[e])])
              = [i \in 1..Len(arg) |-> i]
        /\ \A e \in 1..Len(ret) :
              IF ret[e].type = "List"
              THEN /\ ret[e].items # <<>>
                   /\ \A i \in 1..Len(ret[e].items) :
                         /\ IsListParagraph(arg[ret[e].items[i].origin])
                         /\ OrderedFlag(arg[ret[e].items[i].origin]) = ret[e].ordered
              ELSE /\ ret[e] = arg[ret[e].origin]
                   /\ ~IsListParagraph(ret[e])
        /\ \A e \in 1..(Len(ret) - 1) :
              (ret[e].type = "List" /\ ret[e + 1].type = "List")
                  => ret[e].ordered # ret[e + 1].ordered

\* Two bullets, then a numbered item: one unordered List of two items, then
\* an ordered List of one.
C27_Witness ==
    /\ pc = "group_items_done"
    /\ Len(arg) = 3
    /\ Len(ret) = 2
    /\ ret[1].type = "List" /\ ~ret[1].ordered /\ Len(ret[1].items) = 2
    /\ ret[2].type = "List" /\ ret[2].ordered /\ Len(ret[2].items) = 1

\* The text the claim expects of a list item: the paragraph's text without
\* its leading whitespace and without the bullet or number prefix.
ExpectedItemText(text) ==
    Drop(TrimStart(text), Len(PrefixToRemove(Trim(text))))

\* C28: the concatenated run text of every ListItem is the text of its
\* paragraph with the leading whitespace and the bullet or number prefix
\* removed, also for an indented paragraph and a prefix that spans runs; a
\* run the prefix covers in part keeps its formatting and the later runs
\* are unchanged.
C28_ListPrefixStripped ==
    pc = "group_items_done" =>
        \A e \in 1..Len(ret) :
            ret[e].type = "List" =>
                \A i \in 1..Len(ret[e].items) :
                    LET item == ret[e].items[i]
                        runs == arg[item.origin].runs
                    IN  /\ RunsText(item.runs) = ExpectedItemText(RunsText(runs))
                        /\ item.runs # <<>>
                        /\ \A k \in 1..Len(item.runs) :
                              /\ item.runs[Len(item.runs) + 1 - k].formatting
                                    = runs[Len(runs) + 1 - k].formatting
                              /\ k < Len(item.runs) =>
                                    item.runs[Len(item.runs) + 1 - k]
                                        = runs[Len(runs) + 1 - k]

---------------------------------------------------------------------------
(* extract_table_data as an operation on its own.                          *)

MaxSourceRows == 3

\* Rows of a source table: without cells, header-like, not header-like
\* (cells of more than three words without a header word), and mixed.
SourceRowPalette ==
    {<<>>,
     <<Cell("Name")>>,
     <<Cell("we saw four red cars")>>,
     <<Cell("Ann"), Cell("12")>>,
     <<Cell("we saw four red cars"), Cell("and no one was in them")>>,
     <<Cell("")>>}

InitExtractTable ==
    /\ pc = "extract_table"
    /\ arg \in {SrcTable(rows) : rows \in SeqsUpTo(SourceRowPalette, MaxSourceRows)}
    /\ ret = Null
    /\ counters = <<>>
    /\ IdleCalls /\ IdleLoad /\ IdleSearch

CallExtractTableData ==
    /\ pc = "extract_table"
    /\ ret' = ExtractTableData(arg, 1)
    /\ pc' = "extract_table_done"
    /\ UNCHANGED <<arg, counters, loadVars, callVars, searchVars>>

SpecExtractTable == InitExtractTable /\ [][CallExtractTableData]_vars

\* The rows of the source table that have cells, as extracted cells.
RowsWithCells(table) ==
    LET rows == SelectSeq(table.rows, LAMBDA row : row # <<>>)
    IN  [r \in 1..Len(rows) |-> [c \in 1..Len(rows[r]) |-> CellOf(rows[r][c])]]

FirstRowTexts(table) ==
    [c \in 1..Len(RowsWithCells(table)[1]) |-> RowsWithCells(table)[1][c].content]

\* C29: a source table with a row that has cells gives a Table whose headers
\* are the cells of the first such row and whose rows are the other rows
\* with cells in source order, whether or not the first row looks like a
\* header; has_headers is true and row_count is the number of such rows less
\* one.  A table without any cell gives no element.
C29_HeaderPromotion ==
    pc = "extract_table_done" =>
        IF RowsWithCells(arg) = <<>> THEN ret = None
        ELSE /\ ret # None
             /\ ret[1].type = "Table"
             /\ ret[1].table.headers = Head(RowsWithCells(arg))
             /\ ret[1].table.headers # <<>>
             /\ ret[1].table.rows = Tail(RowsWithCells(arg))
             /\ ret[1].table.metadata.has_headers
             /\ ret[1].table.metadata.row_count = Len(RowsWithCells(arg)) - 1

\* A first row that does not look like a header is the header all the same.
C29_Witness ==
    /\ pc = "extract_table_done"
    /\ Len(arg.rows) = 3
    /\ arg.rows[1] = <<>>
    /\ Len(RowsWithCells(arg)) = 2
    /\ ~AppearsToBeHeader(FirstRowTexts(arg))
    /\ ret[1].table.headers[1].content = S("we saw four red cars")
    /\ ret[1].table.metadata.row_count = 1

\* No row has a cell: no element.
C29_EmptyWitness ==
    pc = "extract_table_done" /\ arg.rows = <<<<>>, <<>>>> /\ ret = None

---------------------------------------------------------------------------
(* omml_to_latex on structures nested in structures.                       *)

\* A math expression: a run of one letter, or a structure of two operands.
MathLeaf(ch) == [kind |-> "r", text |-> <<ch>>, parts |-> <<>>]
MathNode(kind, first, second) ==
    [kind |-> kind, text |-> <<>>, parts |-> <<first, second>>]

\* The tags of the operands of a structure, as omml_to_latex reads them.
OperandTags(kind) ==
    CASE kind = "f" -> <<"m:num", "m:den">>
      [] kind = "sSup" -> <<"m:e", "m:sup">>
      [] kind = "sSub" -> <<"m:e", "m:sub">>

Element(tag, content) ==
    S("<") \o S(tag) \o S(">") \o content \o S("</") \o S(tag) \o S(">")

\* The OMML of an expression as Word writes it (current_omml of the scan).
RECURSIVE OmmlOf(_)
OmmlOf(t) ==
    IF t.kind = "r" THEN MathRun(t.text)
    ELSE Element("m:" \o t.kind,
             Element(OperandTags(t.kind)[1], OmmlOf(t.parts[1]))
                 \o Element(OperandTags(t.kind)[2], OmmlOf(t.parts[2])))

\* The properly nested LaTeX of an expression.
RECURSIVE NestedLatex(_)
NestedLatex(t) ==
    CASE t.kind = "r" -> t.text
      [] t.kind = "f" ->
            S("\\frac{") \o NestedLatex(t.parts[1]) \o S("}{")
                \o NestedLatex(t.parts[2]) \o S("}")
      [] t.kind = "sSup" ->
            NestedLatex(t.parts[1]) \o S("^{") \o NestedLatex(t.parts[2]) \o S("}")
      [] t.kind = "sSub" ->
            NestedLatex(t.parts[1]) \o S("_{") \o NestedLatex(t.parts[2]) \o S("}")

NestedKinds == {"f", "sSup", "sSub"}
MathLeaves == {MathLeaf(ch) : ch \in {"a", "b", "c"}}

\* Operands of the outer structure: a run, or a structure of two runs.
OperandPalette ==
    MathLeaves \cup
        {MathNode(kind, MathLeaf("a"), MathLeaf("b")) : kind \in NestedKinds}

NestedPalette ==
    {MathNode(kind, first, second) :
        kind \in NestedKinds, first \in OperandPalette, second \in OperandPalette}

InitNested ==
    /\ pc = "omml_to_latex"
    /\ arg \in {[tree |-> t, omml |-> OmmlOf(t)] : t \in NestedPalette}
    /\ ret = Null
    /\ counters = <<>>
    /\ IdleCalls /\ IdleLoad /\ IdleSearch

CallOmmlToLatex ==
    /\ pc = "omml_to_latex"
    /\ ret' = OmmlToLatex(arg.omml)
    /\ pc' = "omml_to_latex_done"
    /\ UNCHANGED <<arg, counters, loadVars, callVars, searchVars>>

SpecNested == InitNested /\ [][CallOmmlToLatex]_vars

\* An operand of the structure is a structure of the same tag.
HasSameTagOperand(t) == \E k \in 1..2 : t.parts[k].kind = t.kind

\* C30: a structure that contains a structure of the same tag is converted
\* to the properly nested LaTeX: the operands of the outer structure are
\* taken up to its own closing tag, none is lost and none is emitted
\* outside its structure (a fraction of a/b over c gives
\* \frac{\frac{a}{b}}{c}).
C30_NestedExtraction ==
    pc = "omml_to_latex_done" /\ HasSameTagOperand(arg.tree) =>
        ret = Ok(NestedLatex(arg.tree))

\* Structures nested in a structure of another tag are converted in place.
C30_OtherTagNesting ==
    pc = "omml_to_latex_done" /\ ~HasSameTagOperand(arg.tree) =>
        ret = Ok(NestedLatex(arg.tree))

============================================================================
